---- MODULE Spec2Model ----
(***************************************************************************)
(* A model of the storage and replication core of the JMAP server.         *)
(*                                                                         *)
(* Part I  (StoreSpec): the write pipeline of one (account, collection):   *)
(*   update_documents / update_document (store_rocksdb/src/insert.rs),     *)
(*   the document id assigner, the tombstone sweeper and the read paths.   *)
(* Part II (RaftSpec): leader-to-follower log shipping and document        *)
(*   catch-up (src/cluster/log.rs).                                        *)
(* Part III (OrmSpec): the ORM layer (jmap/src/jmap_store/orm.rs).         *)
(* Part IV (ChangeSpec): change ids of concurrent update_documents calls.  *)
(* Part V  (TaskSpec): the control flow of the leader task of a peer, its  *)
(*   channels and the peer's term (src/cluster/log.rs).                    *)
(* Part VI (BatchSpec): the bitmap operations of one update_documents call *)
(*   with several batches (store_rocksdb/src/insert.rs).                   *)
(***************************************************************************)
EXTENDS Integers, Sequences, FiniteSets, TLC

(***************************************************************************)
(* Bounds of the model.                                                    *)
(***************************************************************************)
\* Document ids are 0 .. MaxDocs-1: a New id is handed out while next_id < MaxDocs.
MaxDocs == 2
\* Change ids are 0 .. MaxChanges-1: update_documents runs while a change id is left.
MaxChanges == 4

DocIds == 0 .. (MaxDocs - 1)
ChangeIds == 0 .. (MaxChanges - 1)
\* Values of the integer field and contents of the binary (blob) fields.
Values == {0, 1}
Blobs == {"a", "b"}

\* The bitmap keys of the collection: the three internal bitmaps
\* (serialize.rs BM_USED_IDS, BM_TOMBSTONED_IDS, BM_FREED_IDS) and one tag bitmap.
BM_USED_IDS == "USED_IDS"
BM_TOMBSTONED_IDS == "TOMBSTONED_IDS"
BM_FREED_IDS == "FREED_IDS"
BM_TAG == "TAG"
BitmapKeys == {BM_USED_IDS, BM_TOMBSTONED_IDS, BM_FREED_IDS, BM_TAG}

VARIABLES
    \* ---- persisted state of the store (one account, one collection)
    values,        \* cf "values": partial function DocIds -> Values, the stored rows of the integer field
    indexes,       \* cf "indexes": set of rows <<value, document>>
    bitmaps,       \* cf "bitmaps": [BitmapKeys -> SUBSET DocIds]
    blob_lists,    \* cf "values": partial function DocIds -> Seq(Blobs), the documents' blob lists
    blob_counts,   \* cf "values": partial function Blobs -> Int, the merge counter of each blob key
    blob_store,    \* the blob payloads present (store_blob)
    change_log,    \* cf "log": the change ids that have a changelog row
    \* ---- in-memory state
    id_assigner,   \* [cached, next_id, freed_ids, next_change_id]; cached = FALSE: to be seeded
    uncommitted,   \* AssignedDocumentIds handed out and not yet given to an insert
    \* ---- history
    inserted_ids,  \* ids an Insert has committed
    deleted_ids,   \* ids a Delete has committed and no purge has swept yet
    purged_ids     \* ids swept by a purge and not inserted again since

storeVars == <<values, indexes, bitmaps, blob_lists, blob_counts, blob_store,
               change_log, id_assigner, uncommitted, inserted_ids,
               deleted_ids, purged_ids>>

\* The persisted key/value state a reader can see.
Persisted == <<values, indexes, bitmaps, blob_lists, blob_counts, blob_store, change_log>>

VARIABLES
    \* ---- the leader node (one account, one collection, one term)
    leader_docs,       \* the documents readable on the leader: partial function DocIds -> Values
    leader_log,        \* the leader's changelog: entry i is change i and Raft log entry i
    \* ---- the leader's task for the peer (locals of spawn_raft_leader)
    state,             \* [name, changes]: State, with the PendingChanges of PushChanges
    last_log,          \* index of the last log entry the task has seen published
    last_sent_id,
    last_commited_id,
    \* ---- the follower node and its task (locals of spawn_raft_follower)
    follower_docs,     \* the documents readable on the follower
    follower_changes,  \* the follower's changelog: partial function change id -> entry
    follower_log,      \* the follower's Raft log: the indices persisted
    commit_id,
    pending_entries,   \* the indices of the raw entries held back
    up_to_date,
    raft_index,        \* the index update_raft_index has set on the follower
    store_changed,     \* the id of the last store_changed signal of the follower
    \* ---- the rpc of the last iteration of the leader's loop
    request,           \* the request sent, NoRequest when the iteration sent none
    response,          \* the response the leader task received for it
    \* ---- history
    synchronized,      \* [matched, prior] of the last SynchronizeLog
    commit_owed,       \* NeedUpdates was received and no Change::Commit sent since
    persisted_in_order \* no entry was persisted after an entry with a higher index

\* The follower's flags and signals set by commit_log.
followerCore == <<up_to_date, raft_index, store_changed>>

\* The request and the response of an iteration.
rpcVars == <<request, response>>

raftVars == <<leader_docs, leader_log, state, last_log, last_sent_id, last_commited_id,
              follower_docs, follower_changes, follower_log, commit_id,
              pending_entries, followerCore, rpcVars, synchronized, commit_owed,
              persisted_in_order>>

VARIABLES
    \* ---- one ORM object (one document of a collection with a schema)
    orm_stored,    \* cf "values": the row of field 0xFF, <<>> or <<bytes>>
    orm_index,     \* cf "indexes": the rows <<property, text>> of the document
    orm_bits,      \* cf "bitmaps": the tag bits <<property, tag>> of the document
    \* ---- the last call on the object
    orm_last,      \* <<>> or <<object>>: the TinyORM the call left (self after merge)
    orm_ops,       \* the operations the call queued on its Document
    orm_result     \* "none", "inserted", "merged" (Ok(true)), "unchanged" (Ok(false)), "invalid"

ormVars == <<orm_stored, orm_index, orm_bits, orm_last, orm_ops, orm_result>>

VARIABLES
    \* ---- concurrent calls of update_documents on the pair
    thread_change_id,  \* per thread: the change id it was assigned and has not written, -1 for none
    handed_change_ids, \* history: the change ids assign_change_id has returned
    commits            \* history: per change id, the number of commits that wrote its row

changeVars == <<thread_change_id, handed_change_ids, commits>>

VARIABLES
    \* ---- the leader task of one peer (spawn_raft_leader) and what it talks to
    task,            \* [pc, state, last_log, last_sent_id, last_commited_id, push_left] and
                     \* the history [synchronized, sent_up_to] of the round of synchronisation
    raft_entries,    \* the last index of the Raft log in the leader's store
    log_index_tx,    \* watch channel of the log index: [value, unseen, closed]
    online_tx,       \* watch channel of the peer's liveness: [value, unseen, closed]
    peer_tx_closed,  \* the peer's request channel is closed
    rpc,             \* the request in flight and its response: [request, response]
    main_tx,         \* the events sent to the cluster's main loop
    peer             \* the peer node: [term, following, last_log]

taskVars == <<task, raft_entries, log_index_tx, online_tx, peer_tx_closed, rpc,
              main_tx, peer>>

VARIABLES
    \* ---- one call of update_documents with several batches
    write_call       \* [pc, batches, ops, blob_indexes, bitmap_list, merges]: bitmap_list
                     \* as the call holds it, merges the merge operations put into the
                     \* WriteBatch; history: ops, the bitmap operations the batches
                     \* queued, and blob_indexes, the blob indexes each batch carried

batchVars == <<write_call>>

vars == <<storeVars, raftVars, ormVars, changeVars, taskVars, batchVars>>

\* What the actions of one part leave unchanged of the other parts.
notStoreVars == <<raftVars, ormVars, changeVars, taskVars, batchVars>>
notRaftVars == <<storeVars, ormVars, changeVars, taskVars, batchVars>>
notOrmVars == <<storeVars, raftVars, changeVars, taskVars, batchVars>>
notTaskVars == <<storeVars, raftVars, ormVars, changeVars, batchVars>>
notBatchVars == <<storeVars, raftVars, ormVars, changeVars, taskVars>>

(***************************************************************************)
(* Helpers.                                                                *)
(***************************************************************************)
Max(S) == CHOOSE x \in S : \A y \in S : y <= x
\* A min() that gives the greatest member of a set.
GreatestFirst(S) == CHOOSE x \in S : \A y \in S : y <= x
Min(S) == CHOOSE x \in S : \A y \in S : x <= y
Range(s) == {s[i] : i \in 1 .. Len(s)}

(***************************************************************************)
(* Document builder: the field operations queued on a document             *)
(* (store/src/batch.rs add_integer / set_tag / clear_tag / add_blob).      *)
(***************************************************************************)
IntegerField(v, is_stored, is_sorted, is_clear) ==
    [kind |-> "Integer", value |-> v, blob |-> "", stored |-> is_stored,
     sorted |-> is_sorted, clear |-> is_clear, blob_index |-> 0]
TagField(is_clear) ==
    [kind |-> "Tag", value |-> 0, blob |-> "", stored |-> FALSE,
     sorted |-> FALSE, clear |-> is_clear, blob_index |-> 0]
BinaryField(index, bytes) ==
    [kind |-> "Binary", value |-> 0, blob |-> bytes, stored |-> FALSE,
     sorted |-> FALSE, clear |-> FALSE, blob_index |-> index]

(***************************************************************************)
(* Write pipeline: RocksDBStore::update_document (insert.rs 203-562).      *)
(* A batch under construction is a record                                  *)
(*   [values, indexes, bitmap_list, blob_fields]:                          *)
(* the rows of the two column families as the rocksdb WriteBatch will      *)
(* leave them, the aggregated bitmap operations and the blob fields seen.  *)
(***************************************************************************)
EmptyBitmapList == [k \in BitmapKeys |-> [d \in DocIds |-> "none"]]

\* An insert that keeps the polarity a document id already has under the key.
BitmapInsertFirst(bitmap_list, key, d, polarity) ==
    IF bitmap_list[key][d] # "none" THEN bitmap_list
    ELSE [bitmap_list EXCEPT ![key][d] = IF polarity THEN "set" ELSE "clear"]

\* bitmap_list.entry(key).or_insert_with(HashMap::new).insert(document_id, polarity)
BitmapInsert(bitmap_list, key, d, polarity) ==
    [bitmap_list EXCEPT ![key][d] = IF polarity THEN "set" ELSE "clear"]

\* batch.put_cf(cf, key, value) / batch.delete_cf(cf, key) on a family of rows
PutRow(rows, k, v) == [x \in DOMAIN rows \cup {k} |-> IF x = k THEN v ELSE rows[x]]
DeleteRow(rows, k) == [x \in DOMAIN rows \ {k} |-> rows[x]]

\* UpdateField::Integer (insert.rs 373-418)
ApplyInteger(b, d, f) ==
    IF ~f.clear
    THEN [b EXCEPT
            !.values = IF f.stored THEN PutRow(b.values, d, f.value) ELSE b.values,
            !.indexes = IF f.sorted THEN b.indexes \cup {<<f.value, d>>} ELSE b.indexes]
    ELSE [b EXCEPT
            !.values = DeleteRow(b.values, d),
            !.indexes = b.indexes \ {<<f.value, d>>}]

\* UpdateField::Tag (insert.rs 351-361)
ApplyTag(b, d, f) ==
    [b EXCEPT !.bitmap_list = BitmapInsert(b.bitmap_list, BM_TAG, d, ~f.clear)]

\* UpdateField::Binary with FieldOptions::StoreAsBlob (insert.rs 362-372)
ApplyBinary(b, d, f) ==
    [b EXCEPT !.blob_fields = Append(b.blob_fields, <<f.blob_index, f.blob>>)]

ApplyField(b, d, f) ==
    CASE f.kind = "Integer" -> ApplyInteger(b, d, f)
      [] f.kind = "Tag" -> ApplyTag(b, d, f)
      [] f.kind = "Binary" -> ApplyBinary(b, d, f)

\* for field in fields.iter() (insert.rs 219-512)
RECURSIVE ApplyFields(_, _, _, _)
ApplyFields(b, d, fields, i) ==
    IF i > Len(fields) THEN b
    ELSE ApplyFields(ApplyField(b, d, fields[i]), d, fields, i + 1)

\* blob_fields.sort_unstable_by_key(|(blob_index, _)| *blob_index) (insert.rs 531);
\* the fields of an input that share an index carry the same bytes, so the
\* order an unstable sort leaves them in makes no difference.
RECURSIVE SortBlobFields(_)
SortBlobFields(blob_fields) ==
    IF blob_fields = <<>> THEN <<>>
    ELSE LET lo == Min({blob_fields[i][1] : i \in 1 .. Len(blob_fields)})
             at == CHOOSE i \in 1 .. Len(blob_fields) : blob_fields[i][1] = lo
             rest == [j \in 1 .. (Len(blob_fields) - 1) |->
                        IF j < at THEN blob_fields[j] ELSE blob_fields[j + 1]]
         IN <<blob_fields[at]>> \o SortBlobFields(rest)

\* blob_to_key: the content-addressed key of a blob. Two blobs share a key iff
\* their bytes are equal, so the key is represented by the content.
blob_to_key(blob) == blob

\* An index test that lets an index repeat the one before it.
BlobIndexGap(sorted, i) ==
    \/ i = 1 /\ sorted[i][1] # 0
    \/ i > 1 /\ sorted[i - 1][1] + 1 < sorted[i][1]

\* The test of the blob index against the last one (insert.rs 534-544):
\* "First blob index is not 0", "Blob indexes are not sequential".
BlobIndexError(sorted, i) ==
    \/ i = 1 /\ sorted[i][1] # 0
    \/ i > 1 /\ sorted[i - 1][1] + 1 # sorted[i][1]

\* The loop over the sorted blob fields (insert.rs 533-553). acc is
\* [ok, stored, keys]: stored holds the keys store_blob was called with (line 547),
\* keys the blob keys appended to blob_entries and merged +1 (lines 550-552).
RECURSIVE StoreBlobFields(_, _, _)
StoreBlobFields(sorted, i, acc) ==
    IF i > Len(sorted) THEN acc
    ELSE IF BlobIndexError(sorted, i)
         THEN [acc EXCEPT !.ok = FALSE]
         ELSE StoreBlobFields(sorted, i + 1,
                  [acc EXCEPT !.stored = @ \cup {blob_to_key(sorted[i][2])},
                              !.keys = Append(@, blob_to_key(sorted[i][2]))])

\* update_document: the result is [ok, values, indexes, bitmap_list, stored, keys];
\* ok = FALSE is the InternalError for blob indexes that are not 0, 1, 2, ...
update_document(bitmap_list, d, fields) ==
    LET b == ApplyFields([values |-> values, indexes |-> indexes,
                          bitmap_list |-> bitmap_list, blob_fields |-> <<>>],
                         d, fields, 1)
        blobs == StoreBlobFields(SortBlobFields(b.blob_fields), 1,
                                 [ok |-> TRUE, stored |-> {}, keys |-> <<>>])
    IN [ok |-> blobs.ok, values |-> b.values, indexes |-> b.indexes,
        bitmap_list |-> b.bitmap_list, stored |-> blobs.stored, keys |-> blobs.keys]

(***************************************************************************)
(* Id assigner (spec 4.9; document_id.rs is not part of the sources).      *)
(***************************************************************************)
Freed(id) == [kind |-> "Freed", id |-> id]
New(id) == [kind |-> "New", id |-> id]

NotCached == [cached |-> FALSE, next_id |-> 0, freed_ids |-> {}, next_change_id |-> 0]

\* get_last_change_id: the highest change id of the changelog, -1 when it is empty.
get_last_change_id ==
    IF change_log = {} THEN -1 ELSE Max(change_log)

\* get_id_assigner: the cached assigner, seeded from storage when there is none:
\* next id from USED_IDS.max() + 1, the freed ids from FREED_IDS.
get_id_assigner ==
    IF id_assigner.cached THEN id_assigner
    ELSE [cached |-> TRUE,
          next_id |-> IF bitmaps[BM_USED_IDS] = {} THEN 0
                      ELSE Max(bitmaps[BM_USED_IDS]) + 1,
          freed_ids |-> bitmaps[BM_FREED_IDS],
          next_change_id |-> get_last_change_id + 1]

\* assign_document_id (insert.rs 187-199) calling assign_id: Freed(id) while the
\* freed cache is not empty, else New(next_id++).
AssignFreed ==
    LET a == get_id_assigner IN
    /\ a.freed_ids # {}
    /\ \E id \in a.freed_ids :
         /\ id_assigner' = [a EXCEPT !.freed_ids = @ \ {id}]
         /\ uncommitted' = uncommitted \cup {Freed(id)}
    /\ UNCHANGED <<values, indexes, bitmaps, blob_lists, blob_counts, blob_store,
                   change_log, inserted_ids, deleted_ids, purged_ids>>
    /\ UNCHANGED notStoreVars

AssignNew ==
    LET a == get_id_assigner IN
    /\ a.freed_ids = {}
    /\ a.next_id < MaxDocs
    /\ id_assigner' = [a EXCEPT !.next_id = @ + 1]
    /\ uncommitted' = uncommitted \cup {New(a.next_id)}
    /\ UNCHANGED <<values, indexes, bitmaps, blob_lists, blob_counts, blob_store,
                   change_log, inserted_ids, deleted_ids, purged_ids>>
    /\ UNCHANGED notStoreVars

\* id_assigner.invalidate_all() (tests/jmap/acl.rs 795): the next use reseeds.
InvalidateAll ==
    /\ id_assigner.cached
    /\ id_assigner' = NotCached
    /\ UNCHANGED <<values, indexes, bitmaps, blob_lists, blob_counts, blob_store,
                   change_log, uncommitted, inserted_ids, deleted_ids, purged_ids>>
    /\ UNCHANGED notStoreVars

(***************************************************************************)
(* RocksDBStore::update_documents (insert.rs 28-172), one document a call. *)
(***************************************************************************)
\* set_clear_bits merged into each bitmap key (insert.rs 163-165)
MergeBitmaps(bm, bitmap_list) ==
    [k \in BitmapKeys |->
        (bm[k] \cup {d \in DocIds : bitmap_list[k][d] = "set"})
            \ {d \in DocIds : bitmap_list[k][d] = "clear"}]

\* write_batch.merge_cf(cf_values, blob_key, delta) for each key of a list
RECURSIVE MergeCounts(_, _, _, _)
MergeCounts(counts, keys, delta, i) ==
    IF i > Len(keys) THEN counts
    ELSE MergeCounts(
            PutRow(counts, keys[i],
                   (IF keys[i] \in DOMAIN counts THEN counts[keys[i]] ELSE 0) + delta),
            keys, delta, i + 1)

\* WriteAction::Insert: the bitmap operations queued before the fields
\* (insert.rs 43-69).
InsertBitmapOps(aid) ==
    BitmapInsert(
        IF aid.kind = "Freed"
        THEN BitmapInsert(EmptyBitmapList, BM_FREED_IDS, aid.id, FALSE)
        ELSE EmptyBitmapList,
        BM_USED_IDS, aid.id, TRUE)

\* A Delete that also takes the id out of USED_IDS.
DeleteBitmapOpsUnused(d) ==
    BitmapInsert(BitmapInsert(EmptyBitmapList, BM_TOMBSTONED_IDS, d, TRUE),
                 BM_USED_IDS, d, FALSE)

\* A Delete that queues no bitmap operation: DeleteBitmapOps without the
\* TOMBSTONED_IDS bit.
DeleteBitmapOpsNoTombstone(d) == EmptyBitmapList

\* WriteAction::Delete: the bitmap operation queued (insert.rs 114-122).
DeleteBitmapOps(d) == BitmapInsert(EmptyBitmapList, BM_TOMBSTONED_IDS, d, TRUE)

\* The call returns an error: nothing of the rocksdb WriteBatch is written.
\* What store_blob wrote before the error (insert.rs 547) stays, and so does the
\* change id taken from the assigner (insert.rs 129).
Failed(stored, assigner) ==
    /\ blob_store' = blob_store \cup stored
    /\ id_assigner' = assigner
    /\ UNCHANGED <<values, indexes, bitmaps, blob_lists, blob_counts, change_log>>

\* self.db.write(write_batch) succeeds (insert.rs 152-171): every row of the
\* batch becomes visible at once.
Written(d, r, keys, delta, put_list, assigner) ==
    /\ values' = r.values
    /\ indexes' = r.indexes
    /\ bitmaps' = MergeBitmaps(bitmaps, r.bitmap_list)
    /\ blob_counts' = MergeCounts(blob_counts, keys, delta, 1)
    /\ blob_lists' = IF put_list THEN PutRow(blob_lists, d, keys) ELSE blob_lists
    /\ blob_store' = blob_store \cup r.stored
    /\ change_log' = change_log \cup {assigner.next_change_id}
    /\ id_assigner' = [assigner EXCEPT !.next_change_id = @ + 1]

\* update_document for an Insert or an Update, then the changelog entry and
\* the write. write_ok = FALSE is an error of db.write.
WriteDocument(d, bitmap_list, fields, write_ok) ==
    LET a == get_id_assigner
        r == update_document(bitmap_list, d, fields)
    IN /\ a.next_change_id < MaxChanges
       /\ IF ~r.ok
          THEN Failed(r.stored, id_assigner)
          ELSE IF ~write_ok
          THEN Failed(r.stored, [a EXCEPT !.next_change_id = @ + 1])
          ELSE Written(d, r, r.keys, 1, r.keys # <<>>, a)

\* The field lists the model feeds the pipeline.
BlobInputs ==
    { <<>>,
      <<BinaryField(0, "a")>>,
      <<BinaryField(1, "b"), BinaryField(0, "a")>>,
      <<BinaryField(0, "a"), BinaryField(2, "b")>>,
      <<BinaryField(1, "a")>>,
      <<BinaryField(0, "a"), BinaryField(0, "a")>> }

InsertInputs ==
    { <<IntegerField(v, TRUE, TRUE, FALSE), TagField(FALSE)>> \o b :
        v \in Values, b \in BlobInputs }

UpdateInputs ==
    { <<IntegerField(v, TRUE, TRUE, c)>> : v \in Values, c \in BOOLEAN }
    \cup { <<TagField(c)>> : c \in BOOLEAN }
    \cup { <<TagField(FALSE), TagField(TRUE)>>, <<TagField(TRUE), TagField(FALSE)>> }
    \cup { <<BinaryField(0, b)>> : b \in Blobs }

\* The documents a caller can name: get_document_ids, USED_IDS without TOMBSTONED_IDS.
DocumentIds == bitmaps[BM_USED_IDS] \ bitmaps[BM_TOMBSTONED_IDS]

InsertDocument ==
    \E aid \in uncommitted, fields \in InsertInputs, write_ok \in BOOLEAN :
        /\ WriteDocument(aid.id, InsertBitmapOps(aid), fields, write_ok)
        /\ uncommitted' = uncommitted \ {aid}
        /\ inserted_ids' = IF change_log' # change_log THEN inserted_ids \cup {aid.id} ELSE inserted_ids
        /\ purged_ids' = IF change_log' # change_log THEN purged_ids \ {aid.id} ELSE purged_ids
        /\ UNCHANGED deleted_ids
        /\ UNCHANGED notStoreVars

UpdateDocument ==
    \E d \in DocumentIds, fields \in UpdateInputs, write_ok \in BOOLEAN :
        /\ WriteDocument(d, EmptyBitmapList, fields, write_ok)
        /\ UNCHANGED <<uncommitted, inserted_ids, deleted_ids, purged_ids>>
        /\ UNCHANGED notStoreVars

\* WriteAction::Delete (insert.rs 95-124): -1 merged into the counter of every
\* key of the document's blob list, the id added to TOMBSTONED_IDS.
DeleteDocument ==
    \E d \in DocumentIds, write_ok \in BOOLEAN :
        LET a == get_id_assigner
            keys == IF d \in DOMAIN blob_lists THEN blob_lists[d] ELSE <<>>
            r == [values |-> values, indexes |-> indexes,
                  bitmap_list |-> DeleteBitmapOps(d), stored |-> {}]
        IN /\ a.next_change_id < MaxChanges
           /\ IF ~write_ok
              THEN /\ Failed({}, [a EXCEPT !.next_change_id = @ + 1])
                   /\ UNCHANGED deleted_ids
              ELSE /\ Written(d, r, keys, -1, FALSE, a)
                   /\ deleted_ids' = deleted_ids \cup {d}
           /\ UNCHANGED <<uncommitted, inserted_ids, purged_ids>>
           /\ UNCHANGED notStoreVars

(***************************************************************************)
(* Tombstone sweeper (spec 4.10; the code of purge_tombstoned is not part  *)
(* of the sources). For every tombstoned id it removes what the document   *)
(* wrote: stored values, index rows, tag bits and the blob list; it drops  *)
(* the blob rows whose counter has reached zero; it moves the id from      *)
(* USED_IDS and TOMBSTONED_IDS to FREED_IDS. The counters are decremented  *)
(* by the Delete itself (insert.rs 105-111), so the sweep decrements none  *)
(* again. The assigner of the pair is invalidated, so that the freed ids   *)
(* are seen by the next assignment (spec 4.9, scenario S5).                *)
(***************************************************************************)
\* get_tombstoned_ids
get_tombstoned_ids == bitmaps[BM_TOMBSTONED_IDS]

RestrictRows(rows, keep) == [x \in DOMAIN rows \cap keep |-> rows[x]]

\* The blob keys listed by the documents of a set.
ListedKeys(docs) ==
    UNION {Range(blob_lists[d]) : d \in docs \cap DOMAIN blob_lists}

purge_tombstoned ==
    LET swept == get_tombstoned_ids
        dropped == {k \in ListedKeys(swept) : k \in DOMAIN blob_counts /\ blob_counts[k] <= 0}
    IN /\ swept # {}
       /\ values' = RestrictRows(values, DocIds \ swept)
       /\ indexes' = {row \in indexes : row[2] \notin swept}
       /\ bitmaps' = [k \in BitmapKeys |->
                        IF k = BM_FREED_IDS THEN bitmaps[k] \cup swept
                        ELSE bitmaps[k] \ swept]
       /\ blob_lists' = RestrictRows(blob_lists, DocIds \ swept)
       /\ blob_counts' = RestrictRows(blob_counts, Blobs \ dropped)
       /\ blob_store' = blob_store \ dropped
       /\ id_assigner' = NotCached
       /\ purged_ids' = purged_ids \cup swept
       /\ deleted_ids' = deleted_ids \ swept
       /\ UNCHANGED <<change_log, uncommitted, inserted_ids>>
       /\ UNCHANGED notStoreVars

(***************************************************************************)
(* Read paths (spec 4.8 and the assertions of store_test/tombstones.rs;    *)
(* the code of query, get_tag and get_document_value is not part of the    *)
(* sources).                                                               *)
(***************************************************************************)
Filters == {<<"None", 0>>, <<"Tag", 0>>} \cup {<<"Eq", v>> : v \in Values}
Comparators == {"None", "Ascending", "Descending"}

\* The bitmap of a filter: a tag by its bitmap, an equality on the sorted field
\* by a scan of the index family; always within USED_IDS \ TOMBSTONED_IDS.
FilterSet(filter) ==
    DocumentIds \cap
        (CASE filter[1] = "None" -> DocIds
           [] filter[1] = "Tag" -> bitmaps[BM_TAG]
           [] filter[1] = "Eq" -> {d \in DocIds : <<filter[2], d>> \in indexes})

\* The rows of the index in key order (value, then document), ascending.
RECURSIVE IndexScan(_)
IndexScan(rows) ==
    IF rows = {} THEN <<>>
    ELSE LET first == CHOOSE r \in rows :
                         \A q \in rows : r[1] < q[1] \/ (r[1] = q[1] /\ r[2] <= q[2])
         IN <<first>> \o IndexScan(rows \ {first})

Reverse(s) == [i \in 1 .. Len(s) |-> s[Len(s) + 1 - i]]

\* Document ids in ascending order.
RECURSIVE Ascending(_)
Ascending(ids) ==
    IF ids = {} THEN <<>> ELSE <<Min(ids)>> \o Ascending(ids \ {Min(ids)})

\* Keeps of a sequence of document ids the first occurrence of each member of a set.
RECURSIVE Select(_, _)
Select(seq, keep) ==
    IF seq = <<>> THEN <<>>
    ELSE IF Head(seq) \in keep
         THEN <<Head(seq)>> \o Select(Tail(seq), keep \ {Head(seq)})
         ELSE Select(Tail(seq), keep)

\* query(account, collection, filter, sort): the filter result iterated in the
\* order of the index of the sort field, then the documents the index lacks.
query(filter, sort) ==
    LET found == FilterSet(filter)
        scan == IndexScan(indexes)
        order == [i \in 1 .. Len(scan) |-> scan[i][2]]
        sorted == Select(IF sort = "Descending" THEN Reverse(order) ELSE order, found)
    IN IF sort = "None" THEN Ascending(found)
       ELSE sorted \o Ascending(found \ Range(sorted))

\* get_tag: the bitmap of the tag without the tombstoned documents.
get_tag == bitmaps[BM_TAG] \ bitmaps[BM_TOMBSTONED_IDS]

\* get_document_value: the stored row of a document that is not tombstoned;
\* <<>> stands for None, <<v>> for Some(v).
get_document_value(d) ==
    IF d \in DOMAIN values /\ d \notin bitmaps[BM_TOMBSTONED_IDS]
    THEN <<values[d]>> ELSE <<>>

(***************************************************************************)
(* Part II. Leader-to-follower replication (src/cluster/log.rs) between    *)
(* one leader and one follower, for one account, one collection (Mail) and *)
(* one term. A RaftId of the term is its index 1, 2, ...; the follower may *)
(* hold one entry of an earlier term, StaleId; Raft entry i                *)
(* describes change i of the collection (handle_update_log compares the    *)
(* entry index with the last change id). The leader's loop awaits the      *)
(* response of each request, and the follower task handles one request at  *)
(* a time, so one step of the model is one iteration of the leader's loop  *)
(* together with the handling of its request by the follower.              *)
(***************************************************************************)
\* The leader commits changes while its log has fewer than MaxLog entries.
MaxLog == 2

\* const BATCH_MAX_ENTRIES (log.rs 31)
BATCH_MAX_ENTRIES == 10

\* RaftId::none(), also None for a change id
RaftNone == 0

\* The id of an entry of an earlier term that the leader's log does not hold:
\* it is below every id of the leader's term.
StaleId == -1

\* The requests of the model fill their byte budget (BATCH_MAX_SIZE) after at
\* most MaxBatch items; the sizes of the items are inputs.
MaxBatch == 2

\* store::raft::PendingChanges
PendingChanges(inserts, updates, deletes, changes) ==
    [inserts |-> inserts, updates |-> updates, deletes |-> deletes, changes |-> changes]
NoChanges == PendingChanges({}, {}, {}, {})
is_empty(ch) ==
    ch.inserts = {} /\ ch.updates = {} /\ ch.deletes = {} /\ ch.changes = {}

\* enum State (log.rs 62-72). The collection list of PushChanges is empty once
\* the one collection of the model has been popped.
State(name, changes) == [name |-> name, changes |-> changes]

\* A changelog entry: the action logged for a document.
LogEntry(action, id) == [action |-> action, id |-> id]

\* enum Change (log.rs 34-60)
Change(kind, id, value, entry) ==
    [kind |-> kind, id |-> id, value |-> value, entry |-> entry]
Commit == Change("Commit", 0, 0, LogEntry("", 0))

\* enum Request / AppendEntriesRequest as the leader task sends them: kind is
\* "BecomeFollower", "Synchronize", "UpdateLog" or "UpdateStore"; of the
\* changes of an UpdateStore the record keeps whether Change::Commit is one.
\* Of an UpdateLog it keeps the data of the entry of the batch the worker of
\* the follower reads (RawEntry.data), and whether get_last_change_id
\* returned a value when the worker called it.
Request(kind, last, changes) ==
    [kind |-> kind, last_log |-> last,
     commit |-> \E i \in 1 .. Len(changes) : changes[i].kind = "Commit",
     data |-> <<>>, lookup_ok |-> TRUE]
NoRequest == Request("", RaftNone, <<>>)

\* enum Response as the leader task receives it: kind is "SynchronizeLog",
\* "NeedUpdates", "Continue" or "None".
Response(kind, matched, from_change_id) ==
    [kind |-> kind, matched |-> matched, from_change_id |-> from_change_id]
NoResponse == Response("", RaftNone, RaftNone)

\* What an rpc can meet: the peer is offline ("offline": the request is not
\* handled), the worker of the handler returns an error ("worker_error"),
\* insert_raft_entries returns an error ("commit_error"), or none of these.
Outcomes == {"ok", "offline", "worker_error", "commit_error"}

(***************************************************************************)
(* The leader's store: a committed write appends the change to the         *)
(* changelog and the entry that describes it to the Raft log (spec 3).     *)
(* Document ids are not reused on the leader of this part.                 *)
(***************************************************************************)
InsertedOnLeader == {leader_log[i].id : i \in {j \in 1 .. Len(leader_log) : leader_log[j].action = "Insert"}}

LeaderUnchanged ==
    UNCHANGED <<state, last_log, last_sent_id, last_commited_id, follower_docs,
                follower_changes, follower_log, commit_id, pending_entries,
                followerCore, rpcVars, synchronized, commit_owed,
                persisted_in_order>>

LeaderInsert ==
    \E v \in Values :
        LET d == Cardinality(InsertedOnLeader) IN
        /\ Len(leader_log) < MaxLog
        /\ d < MaxDocs
        /\ leader_docs' = PutRow(leader_docs, d, v)
        /\ leader_log' = Append(leader_log, LogEntry("Insert", d))
        /\ LeaderUnchanged
        /\ UNCHANGED notRaftVars

LeaderUpdate ==
    \E d \in DOMAIN leader_docs, v \in Values :
        /\ Len(leader_log) < MaxLog
        /\ leader_docs' = PutRow(leader_docs, d, v)
        /\ leader_log' = Append(leader_log, LogEntry("Update", d))
        /\ LeaderUnchanged
        /\ UNCHANGED notRaftVars

LeaderDelete ==
    \E d \in DOMAIN leader_docs :
        /\ Len(leader_log) < MaxLog
        /\ leader_docs' = DeleteRow(leader_docs, d)
        /\ leader_log' = Append(leader_log, LogEntry("Delete", d))
        /\ LeaderUnchanged
        /\ UNCHANGED notRaftVars

(***************************************************************************)
(* Store calls of the leader task.                                         *)
(***************************************************************************)
\* get_raft_entries(from_raft_id, num_entries): the entries after from_raft_id
get_raft_entries(from_raft_id, num_entries) ==
    [i \in 1 .. Min({num_entries, Len(leader_log) - from_raft_id}) |-> from_raft_id + i]

\* get_pending_changes(account, collection, from_change_id, only_ids): the net
\* inserted, updated and deleted ids of the changes after from_change_id, and
\* the ids of these changes.
RECURSIVE PendingFrom(_, _)
PendingFrom(i, acc) ==
    IF i > Len(leader_log) THEN acc
    ELSE LET e == leader_log[i]
             seen == [acc EXCEPT !.changes = @ \cup {i}]
         IN PendingFrom(i + 1,
                CASE e.action = "Insert" -> [seen EXCEPT !.inserts = @ \cup {e.id}]
                  [] e.action = "Update" ->
                        IF e.id \in acc.inserts THEN seen
                        ELSE [seen EXCEPT !.updates = @ \cup {e.id}]
                  [] e.action = "Delete" ->
                        IF e.id \in acc.inserts
                        THEN [seen EXCEPT !.inserts = @ \ {e.id}]
                        ELSE [seen EXCEPT !.updates = @ \ {e.id},
                                          !.deletes = @ \cup {e.id}])

get_pending_changes(from_change_id) == PendingFrom(from_change_id + 1, NoChanges)

\* get_next_changes (log.rs 729-771) for the one collection: read_ok = FALSE is
\* the error of get_pending_changes.
get_next_changes(from_change_id, read_ok) ==
    IF ~read_ok THEN State("Synchronize", NoChanges)
    ELSE LET changes == get_pending_changes(from_change_id)
         IN IF is_empty(changes) THEN State("AppendEntries", NoChanges)
            ELSE State("PushChanges", changes)

\* fetch_item / fetch_email (log.rs 849-961): the change that carries the
\* document as the leader stores it now, none when the document is gone.
fetch_item(d, is_insert) ==
    IF d \in DOMAIN leader_docs
    THEN <<Change(IF is_insert THEN "InsertMail" ELSE "UpdateMail", d, leader_docs[d],
                  LogEntry("", 0))>>
    ELSE <<>>

\* fetch_raw_change (log.rs 994-1020)
fetch_raw_change(change_id) ==
    IF change_id \in 1 .. Len(leader_log)
    THEN <<Change("InsertChange", change_id, 0, leader_log[change_id])>>
    ELSE <<>>

\* The loop of prepare_changes (log.rs 785-833). Each id is removed from its
\* set before it is fetched; fail_at = n makes the n-th fetch return an error,
\* which the ? operator returns from prepare_changes, dropping push_changes.
\* batch_size reaches BATCH_MAX_SIZE with the item that makes the batch
\* full_at items long (log.rs 829-831); full_at = 0: the budget is not reached.
RECURSIVE PrepareLoop(_, _, _, _, _)
PrepareLoop(changes, push_changes, fetched, fail_at, full_at) ==
    IF push_changes # <<>> /\ Len(push_changes) = full_at
    THEN [ok |-> TRUE, changes |-> changes, push_changes |-> push_changes]
    ELSE IF changes.inserts # {}
    THEN LET d == Min(changes.inserts)
             rest == [changes EXCEPT !.inserts = @ \ {d}]
         IN IF fetched + 1 = fail_at
            THEN [ok |-> FALSE, changes |-> rest, push_changes |-> <<>>]
            ELSE PrepareLoop(rest, push_changes \o fetch_item(d, TRUE), fetched + 1,
                             fail_at, full_at)
    ELSE IF changes.updates # {}
    THEN LET d == Min(changes.updates)
             rest == [changes EXCEPT !.updates = @ \ {d}]
         IN IF fetched + 1 = fail_at
            THEN [ok |-> FALSE, changes |-> rest, push_changes |-> <<>>]
            ELSE PrepareLoop(rest, push_changes \o fetch_item(d, FALSE), fetched + 1,
                             fail_at, full_at)
    ELSE IF changes.deletes # {}
    THEN LET d == Min(changes.deletes)
             rest == [changes EXCEPT !.deletes = @ \ {d}]
         IN PrepareLoop(rest, Append(push_changes, Change("Delete", d, 0, LogEntry("", 0))),
                        fetched, fail_at, full_at)
    ELSE IF changes.changes # {}
    THEN LET c == Min(changes.changes)
             rest == [changes EXCEPT !.changes = @ \ {c}]
         IN IF fetched + 1 = fail_at
            THEN [ok |-> FALSE, changes |-> rest, push_changes |-> <<>>]
            ELSE PrepareLoop(rest, push_changes \o fetch_raw_change(c), fetched + 1,
                             fail_at, full_at)
    ELSE [ok |-> TRUE, changes |-> changes, push_changes |-> push_changes]

\* A prepare_changes that never pushes Change::Commit.
PushCommitNever(changes, has_more_changes) == FALSE

\* prepare_changes (log.rs 833-835): Commit is pushed when the pending changes
\* are drained and no collection is left to send.
PushCommit(changes, has_more_changes) == is_empty(changes) /\ ~has_more_changes

\* prepare_changes (log.rs 773-847); has_more_changes = FALSE: the one
\* collection of the model has been popped from the list.
prepare_changes(changes, fail_at, full_at) ==
    LET r == PrepareLoop(changes, <<>>, 0, fail_at, full_at)
    IN IF r.ok /\ PushCommit(r.changes, FALSE)
       THEN [r EXCEPT !.push_changes = Append(@, Commit)]
       ELSE r

\* The number of fetches prepare_changes makes for the pending changes.
Fetches(changes) ==
    Cardinality(changes.inserts) + Cardinality(changes.updates)
        + Cardinality(changes.changes)

(***************************************************************************)
(* The follower task (log.rs 355-426) and its handlers.                    *)
(***************************************************************************)
\* get_last_change_id(account, collection) on the follower
follower_last_change_id ==
    IF DOMAIN follower_changes = {} THEN RaftNone ELSE Max(DOMAIN follower_changes)

\* get_prev_raft_id(last_log): the highest id of the follower's log that is
\* not above last_log.
get_prev_raft_id(id) ==
    LET have == {i \in follower_log : i <= id}
    IN IF have = {} THEN RaftNone ELSE Max(have)

\* AppendEntriesRequest::Synchronize (log.rs 367-400); read_ok = FALSE is the
\* error of get_prev_raft_id, answered with RaftId::none().
handle_synchronize(last, read_ok) ==
    LET matched == IF read_ok THEN get_prev_raft_id(last) ELSE RaftNone
    IN [matched |-> matched,
        up_to_date |-> IF read_ok /\ matched # RaftNone THEN matched = last
                       ELSE IF read_ok /\ last = RaftNone THEN TRUE
                       ELSE up_to_date]

\* insert_raft_entries writes the entries one after the other: no index
\* persisted before an entry is above the index of the entry.
InIndexOrder(log, entries) ==
    \A k \in 1 .. Len(entries) :
        \A j \in log \cup {entries[m] : m \in 1 .. (k - 1)} : j <= entries[k]

\* A commit_log that never marks the follower up to date.
CommitMatchesNever(commit, last) == FALSE

\* commit_log (log.rs 703): the last entry persisted is the leader's last log.
CommitMatches(commit, last) == commit = last

\* commit_log (log.rs 674-715); write_ok = FALSE is the error of
\* insert_raft_entries.
commit_log(entries, commit, write_ok) ==
    IF entries = <<>>
    THEN [ok |-> TRUE, log |-> follower_log, up_to_date |-> up_to_date,
          raft_index |-> raft_index, store_changed |-> store_changed,
          in_order |-> persisted_in_order]
    ELSE IF ~write_ok
    THEN [ok |-> FALSE, log |-> follower_log, up_to_date |-> up_to_date,
          raft_index |-> raft_index, store_changed |-> store_changed,
          in_order |-> persisted_in_order]
    ELSE LET last == entries[Len(entries)]
         IN [ok |-> TRUE, log |-> follower_log \cup Range(entries),
             up_to_date |-> IF CommitMatches(commit, last) THEN TRUE ELSE up_to_date,
             raft_index |-> last, store_changed |-> last,
             in_order |-> persisted_in_order /\ InIndexOrder(follower_log, entries)]

\* A handler that answers Continue also when commit_log has failed.
CommitResponseContinue(ok) == "Continue"

\* The answer of a handler after commit_log (log.rs 543-547, 660-664):
\* Response::Continue when it returns true, Response::None when it fails.
CommitResponse(ok) == IF ok THEN "Continue" ELSE "None"

(***************************************************************************)
(* The data of a Raft entry (store/src/log/entry.rs): a leading byte, then *)
(* for an Item the account id and the bitmap of the changed collections in *)
(* little-endian bytes, for a Snapshot LEB128 numbers.                     *)
(***************************************************************************)
ENTRY == 0
SNAPSHOT == 1
AccountIdSize == 4
CollectionsSize == 8

RECURSIVE from_le_bytes(_)
from_le_bytes(bytes) ==
    IF bytes = <<>> THEN 0 ELSE Head(bytes) + 256 * from_le_bytes(Tail(bytes))

\* Leb128Iterator::next_leb128 from position pos: <<value, next position>>,
\* or <<>> when the bytes end before the number does.
RECURSIVE next_leb128(_, _)
next_leb128(bytes, pos) ==
    IF pos > Len(bytes) THEN <<>>
    ELSE IF bytes[pos] < 128 THEN <<bytes[pos], pos + 1>>
    ELSE LET rest == next_leb128(bytes, pos + 1)
         IN IF rest = <<>> THEN <<>>
            ELSE <<(bytes[pos] - 128) + 128 * rest[1], rest[2]>>

\* for _ in 0..total_accounts { accounts.push(bytes_it.next_leb128()?) }
\* (entry.rs 96-98)
RECURSIVE ReadAccounts(_, _, _, _)
ReadAccounts(bytes, pos, total_accounts, accounts) ==
    IF total_accounts = 0 THEN <<accounts, pos>>
    ELSE LET account == next_leb128(bytes, pos)
         IN IF account = <<>> THEN <<>>
            ELSE ReadAccounts(bytes, account[2], total_accounts - 1,
                              Append(accounts, account[1]))

\* for _ in 0..total_collections { .. } (entry.rs 91-101)
RECURSIVE ReadCollections(_, _, _, _)
ReadCollections(bytes, pos, total_collections, changed_accounts) ==
    IF total_collections = 0 THEN <<changed_accounts>>
    ELSE LET collections == next_leb128(bytes, pos)
             total_accounts == IF collections = <<>> THEN <<>>
                               ELSE next_leb128(bytes, collections[2])
             accounts == IF total_accounts = <<>> THEN <<>>
                         ELSE ReadAccounts(bytes, total_accounts[2], total_accounts[1], <<>>)
         IN IF accounts = <<>> THEN <<>>
            ELSE ReadCollections(bytes, accounts[2], total_collections - 1,
                                 Append(changed_accounts, <<collections[1], accounts[1]>>))

\* Entry::deserialize (entry.rs 68-111): <<entry>>, or <<>> for None.
deserialize_entry(bytes) ==
    IF bytes = <<>> THEN <<>>
    ELSE CASE bytes[1] = ENTRY ->
                  IF Len(bytes) < 1 + AccountIdSize THEN <<>>
                  ELSE IF Len(bytes) - (1 + AccountIdSize) # CollectionsSize THEN <<>>
                  ELSE <<[kind |-> "Item",
                          account_id |-> from_le_bytes(SubSeq(bytes, 2, 1 + AccountIdSize)),
                          changed_collections |->
                              from_le_bytes(SubSeq(bytes, 2 + AccountIdSize, Len(bytes)))]>>
           [] bytes[1] = SNAPSHOT ->
                  LET total_collections == next_leb128(bytes, 2)
                      changed_accounts ==
                          IF total_collections = <<>> THEN <<>>
                          ELSE ReadCollections(bytes, total_collections[2],
                                               total_collections[1], <<>>)
                  IN IF changed_accounts = <<>> THEN <<>>
                     ELSE <<[kind |-> "Snapshot", changed_accounts |-> changed_accounts[1]]>>
           [] OTHER -> <<>>

\* The data of an entry as the leader has written it: an Item of account 1
\* with one changed collection, a Snapshot of one collection and one account.
ItemData == <<ENTRY, 1, 0, 0, 0, 1, 0, 0, 0, 0, 0, 0, 0>>
SnapshotData == <<SNAPSHOT, 1, 1, 1, 1>>

\* The strict prefixes of the data.
Prefixes(bytes) == {SubSeq(bytes, 1, n) : n \in 0 .. (Len(bytes) - 1)}

\* The data with another leading byte.
WithLead(bytes, b) == <<b>> \o Tail(bytes)

\* The data an UpdateLog arrives with: as written, cut short, or with a
\* leading byte that is neither ENTRY nor SNAPSHOT.
RawData ==
    {ItemData, SnapshotData, <<>>, SubSeq(ItemData, 1, 1 + AccountIdSize),
     SubSeq(SnapshotData, 1, 4), WithLead(ItemData, 2)}

\* A worker that passes over the entries it cannot deserialize.
WorkerFailsOnLookup(data, lookup_ok) == ~lookup_ok

\* The worker of handle_update_log returns an error (log.rs 503-508, 519):
\* an entry does not deserialize, or get_last_change_id fails.
WorkerFails(data, lookup_ok) == deserialize_entry(data) = <<>> \/ ~lookup_ok

\* An UpdateLog handler that holds back an entry also when the last change id
\* equals its index.
NeedsUpdateAlso(index, last_change_id) == index >= last_change_id

\* handle_update_log (log.rs 518-528): the collection of the entry is listed
\* when it has no last change id or one below the index of the entry.
NeedsUpdate(index, last_change_id) ==
    IF last_change_id # RaftNone THEN ~(index <= last_change_id) ELSE TRUE

\* handle_update_log (log.rs 487-557) with the outcome of its worker and of
\* insert_raft_entries.
handle_update_log(entries, commit, outcome) ==
    LET last_change_id == follower_last_change_id
        unchanged == [response |-> Response("None", RaftNone, RaftNone),
                      pending_entries |-> pending_entries, log |-> follower_log,
                      up_to_date |-> up_to_date, raft_index |-> raft_index,
                      store_changed |-> store_changed, in_order |-> persisted_in_order]
    IN IF outcome = "worker_error" THEN unchanged
       ELSE IF \E k \in 1 .. Len(entries) : NeedsUpdate(entries[k], last_change_id)
       THEN [unchanged EXCEPT !.response = Response("NeedUpdates", RaftNone, last_change_id),
                              !.pending_entries = entries,
                              !.up_to_date = FALSE]
       ELSE LET c == commit_log(entries, commit, outcome # "commit_error")
            IN [response |-> Response(CommitResponse(c.ok), RaftNone, RaftNone),
                pending_entries |-> pending_entries, log |-> c.log,
                up_to_date |-> c.up_to_date, raft_index |-> c.raft_index,
                store_changed |-> c.store_changed, in_order |-> c.in_order]

\* The loop over the changes of handle_update_store (log.rs 586-648).
\* raft_update_mail writes the message of an InsertMail and the tags of an
\* UpdateMail of a message the follower holds.
RECURSIVE ApplyChanges(_, _, _)
ApplyChanges(acc, changes, i) ==
    IF i > Len(changes) THEN acc
    ELSE LET c == changes[i]
         IN ApplyChanges(
                CASE c.kind = "InsertMail" ->
                        [acc EXCEPT !.docs = PutRow(@, c.id, c.value)]
                  [] c.kind = "UpdateMail" ->
                        [acc EXCEPT !.docs = IF c.id \in DOMAIN @
                                             THEN PutRow(@, c.id, c.value) ELSE @]
                  [] c.kind = "Delete" ->
                        [acc EXCEPT !.docs = DeleteRow(@, c.id)]
                  [] c.kind = "InsertChange" ->
                        [acc EXCEPT !.changes = PutRow(@, c.id, c.entry)]
                  [] c.kind = "Commit" ->
                        [acc EXCEPT !.do_commit = TRUE],
                changes, i + 1)

\* handle_update_store (log.rs 559-672) with the outcome of its worker (the
\* batches are not written on an error) and of insert_raft_entries.
handle_update_store(changes, commit, outcome) ==
    LET a == ApplyChanges([docs |-> follower_docs, changes |-> follower_changes,
                           do_commit |-> FALSE], changes, 1)
        c == commit_log(pending_entries, commit, outcome # "commit_error")
    IN IF outcome = "worker_error"
       THEN [response |-> Response("None", RaftNone, RaftNone),
             docs |-> follower_docs, changes |-> follower_changes,
             log |-> follower_log, pending_entries |-> pending_entries,
             up_to_date |-> up_to_date, raft_index |-> raft_index,
             store_changed |-> store_changed, in_order |-> persisted_in_order]
       ELSE IF a.do_commit
       THEN [response |-> Response(CommitResponse(c.ok), RaftNone, RaftNone),
             docs |-> a.docs, changes |-> a.changes,
             log |-> c.log, pending_entries |-> <<>>,
             up_to_date |-> c.up_to_date, raft_index |-> c.raft_index,
             store_changed |-> c.store_changed, in_order |-> c.in_order]
       ELSE [response |-> Response("Continue", RaftNone, RaftNone),
             docs |-> a.docs, changes |-> a.changes,
             log |-> follower_log, pending_entries |-> pending_entries,
             up_to_date |-> up_to_date, raft_index |-> raft_index,
             store_changed |-> store_changed, in_order |-> persisted_in_order]

\* The follower has followed the leader of an earlier term: its log holds an
\* entry that the log of the new leader does not hold (commit_log, log.rs
\* 674-690, on a request of the earlier leader).
FollowerOfEarlierTerm ==
    /\ state.name = "BecomeLeader"
    /\ response = NoResponse
    /\ follower_log = {}
    /\ follower_log' = {StaleId}
    /\ UNCHANGED <<leader_docs, leader_log, state, last_log, last_sent_id,
                   last_commited_id, follower_docs, follower_changes, commit_id,
                   pending_entries, followerCore, rpcVars, synchronized, commit_owed,
                   persisted_in_order>>
    /\ UNCHANGED notRaftVars

(***************************************************************************)
(* The leader task (spawn_raft_leader, log.rs 99-353): one iteration of    *)
(* its loop a step. Response::None is what the task receives when the peer *)
(* is offline or the handler of the follower fails.                        *)
(***************************************************************************)
\* get_next_raft_id(id) on the leader (spec 4.7: the local match of the id a
\* peer reports): the first id of the leader's log that is not below id.
get_next_raft_id(id) ==
    LET have == {i \in 1 .. Len(leader_log) : i >= id}
    IN IF have = {} THEN <<>> ELSE <<Min(have)>>

\* A leader task that takes every id a peer reports as matched.
LocalMatchAlways(matched, read_ok) == TRUE

\* Response::SynchronizeLog (log.rs 248-269): the lookup returns the id
\* matched; read_ok = FALSE is the error of get_next_raft_id.
LocalMatch(matched, read_ok) ==
    LET local_match == get_next_raft_id(matched)
    IN read_ok /\ local_match # <<>> /\ local_match[1] = matched

\* The poll of log_index_rx at the top of the loop (log.rs 119-140): the
\* index the watcher has published. An entry is in the leader's log before its
\* index is published, and the index read is not below the one read before.
PublishedIndexes == {n \in 0 .. Len(leader_log) : n >= last_log}

\* An iteration that sends no request (continue).
NoRpc ==
    /\ request' = NoRequest
    /\ response' = NoResponse

\* BecomeFollower and Synchronize are both answered by the follower task with
\* SynchronizeLog (log.rs 439-446, 367-400); the leader handles it at 247-275.
SynchronizeLog(kind, last, online, read_ok, local_ok) ==
    LET r == handle_synchronize(last, read_ok)
    IN /\ last_log' = last
       /\ request' = Request(kind, last, <<>>)
       /\ IF online
          THEN /\ commit_id' = last
               /\ up_to_date' = r.up_to_date
               /\ response' = Response("SynchronizeLog", r.matched, RaftNone)
               /\ synchronized' = [matched |-> r.matched, prior |-> get_prev_raft_id(last)]
               /\ IF r.matched # RaftNone /\ ~LocalMatch(r.matched, local_ok)
                  THEN /\ state' = State("Exited", NoChanges)
                       /\ UNCHANGED <<last_commited_id, last_sent_id>>
                  ELSE /\ last_commited_id' = r.matched
                       /\ last_sent_id' = r.matched
                       /\ state' = State("AppendEntries", NoChanges)
          ELSE /\ state' = State("BecomeLeader", NoChanges)
               /\ response' = Response("None", RaftNone, RaftNone)
               /\ UNCHANGED <<commit_id, up_to_date, last_commited_id, last_sent_id,
                              synchronized>>
       /\ UNCHANGED <<leader_docs, leader_log, follower_docs, follower_changes,
                      follower_log, pending_entries, raft_index, store_changed,
                      commit_owed, persisted_in_order>>
       /\ UNCHANGED notRaftVars

\* State::BecomeLeader (log.rs 143-146)
BecomeLeader ==
    /\ state.name = "BecomeLeader"
    /\ \E last \in PublishedIndexes, online, read_ok, local_ok \in BOOLEAN :
           SynchronizeLog("BecomeFollower", last, online, read_ok, local_ok)

\* State::Synchronize (log.rs 147-150)
Synchronize ==
    /\ state.name = "Synchronize"
    /\ \E last \in PublishedIndexes, online, read_ok, local_ok \in BOOLEAN :
           SynchronizeLog("Synchronize", last, online, read_ok, local_ok)

\* State::AppendEntries, get_raft_entries returns an error (log.rs 211-216)
AppendEntriesError ==
    /\ state.name = "AppendEntries"
    /\ last_log' \in PublishedIndexes
    /\ last_sent_id' = last_commited_id
    /\ state' = State("Wait", NoChanges)
    /\ NoRpc
    /\ UNCHANGED <<leader_docs, leader_log, last_commited_id, follower_docs,
                   follower_changes, follower_log, commit_id, pending_entries,
                   followerCore, synchronized, commit_owed,
                   persisted_in_order>>
    /\ UNCHANGED notRaftVars

\* State::AppendEntries, no entry after last_sent_id (log.rs 202-209)
AppendEntriesUpToDate ==
    /\ state.name = "AppendEntries"
    /\ get_raft_entries(last_sent_id, BATCH_MAX_ENTRIES) = <<>>
    /\ last_log' \in PublishedIndexes
    /\ state' = State("Wait", NoChanges)
    /\ NoRpc
    /\ UNCHANGED <<leader_docs, leader_log, last_sent_id, last_commited_id,
                   follower_docs, follower_changes, follower_log, commit_id,
                   pending_entries, followerCore, synchronized, commit_owed,
                   persisted_in_order>>
    /\ UNCHANGED notRaftVars

\* State::AppendEntries, UpdateLog sent (log.rs 189-201), handled by the
\* follower (401-405) and answered with NeedUpdates (324-326), Continue
\* (327-340) or None (276-323). read_ok = FALSE is the error of
\* get_pending_changes in get_next_changes.
\* The data of the batch arrives as written or damaged; the other outcomes
\* are taken with the data as written.
UpdateLog ==
    \E last \in PublishedIndexes, met \in Outcomes, data \in RawData, read_ok \in BOOLEAN :
        LET entries == get_raft_entries(last_sent_id, BATCH_MAX_ENTRIES)
            lookup_ok == met # "worker_error"
            outcome == IF WorkerFails(data, lookup_ok) THEN "worker_error" ELSE met
            r == handle_update_log(entries, last, outcome)
        IN /\ state.name = "AppendEntries"
           /\ entries # <<>>
           /\ data # ItemData => met = "ok"
           /\ last_log' = last
           /\ last_sent_id' = entries[Len(entries)]
           /\ request' = [Request("UpdateLog", last, <<>>) EXCEPT
                              !.data = data, !.lookup_ok = lookup_ok]
           /\ IF outcome # "offline"
              THEN /\ commit_id' = last
                   /\ pending_entries' = r.pending_entries
                   /\ follower_log' = r.log
                   /\ up_to_date' = r.up_to_date
                   /\ raft_index' = r.raft_index
                   /\ store_changed' = r.store_changed
                   /\ persisted_in_order' = r.in_order
                   /\ response' = r.response
                   /\ commit_owed' = (commit_owed \/ r.response.kind = "NeedUpdates")
                   /\ state' = CASE r.response.kind = "NeedUpdates" ->
                                        get_next_changes(r.response.from_change_id, read_ok)
                                 [] r.response.kind = "Continue" -> state
                                 [] OTHER -> State("BecomeLeader", NoChanges)
              ELSE /\ state' = State("BecomeLeader", NoChanges)
                   /\ response' = Response("None", RaftNone, RaftNone)
                   /\ UNCHANGED <<commit_id, pending_entries, follower_log,
                                  followerCore, commit_owed, persisted_in_order>>
           /\ UNCHANGED <<leader_docs, leader_log, last_commited_id, follower_docs,
                          follower_changes, synchronized>>
           /\ UNCHANGED notRaftVars

\* State::PushChanges, prepare_changes returns an error (log.rs 155-161): the
\* loop continues with the pending changes as prepare_changes left them.
PushChangesError ==
    \E fail_at \in 1 .. Fetches(state.changes) :
        /\ state.name = "PushChanges"
        /\ last_log' \in PublishedIndexes
        /\ state' = State("PushChanges", prepare_changes(state.changes, fail_at, 0).changes)
        /\ NoRpc
        /\ UNCHANGED <<leader_docs, leader_log, last_sent_id, last_commited_id,
                       follower_docs, follower_changes, follower_log, commit_id,
                       pending_entries, followerCore, synchronized, commit_owed,
                   persisted_in_order>>
        /\ UNCHANGED notRaftVars

\* State::PushChanges, UpdateStore sent (log.rs 151-156), handled by the
\* follower (406-420) and answered with Continue (327-340) or None.
UpdateStore ==
    \E outcome \in Outcomes, full_at \in 0 .. MaxBatch :
        LET p == prepare_changes(state.changes, 0, full_at)
            r == handle_update_store(p.push_changes, commit_id, outcome)
        IN /\ state.name = "PushChanges"
           /\ last_log' \in PublishedIndexes
           /\ request' = Request("UpdateStore", RaftNone, p.push_changes)
           /\ commit_owed' = (commit_owed /\ ~request'.commit)
           /\ IF outcome # "offline"
              THEN /\ follower_docs' = r.docs
                   /\ follower_changes' = r.changes
                   /\ follower_log' = r.log
                   /\ pending_entries' = r.pending_entries
                   /\ up_to_date' = r.up_to_date
                   /\ raft_index' = r.raft_index
                   /\ store_changed' = r.store_changed
                   /\ persisted_in_order' = r.in_order
                   /\ response' = r.response
                   /\ IF r.response.kind = "Continue"
                      THEN IF is_empty(p.changes)
                           THEN /\ last_commited_id' = last_sent_id
                                /\ state' = State("AppendEntries", NoChanges)
                           ELSE /\ state' = State("PushChanges", p.changes)
                                /\ UNCHANGED last_commited_id
                      ELSE /\ state' = State("BecomeLeader", NoChanges)
                           /\ UNCHANGED last_commited_id
              ELSE /\ state' = State("BecomeLeader", NoChanges)
                   /\ response' = Response("None", RaftNone, RaftNone)
                   /\ UNCHANGED <<follower_docs, follower_changes, follower_log,
                                  pending_entries, followerCore, persisted_in_order,
                                  last_commited_id>>
           /\ UNCHANGED <<leader_docs, leader_log, last_sent_id, commit_id, synchronized>>
           /\ UNCHANGED notRaftVars

\* State::Wait (log.rs 163-178): resumes when a new log index is published.
Wait ==
    /\ state.name = "Wait"
    /\ last_log' \in PublishedIndexes \ {last_log}
    /\ state' = State("AppendEntries", NoChanges)
    /\ NoRpc
    /\ UNCHANGED <<leader_docs, leader_log, last_sent_id, last_commited_id,
                   follower_docs, follower_changes, follower_log, commit_id,
                   pending_entries, followerCore, synchronized, commit_owed,
                   persisted_in_order>>
    /\ UNCHANGED notRaftVars

RaftInit ==
    /\ leader_docs = <<>>
    /\ leader_log = <<>>
    /\ state = State("BecomeLeader", NoChanges)
    /\ last_log = RaftNone
    /\ last_sent_id = RaftNone
    /\ last_commited_id = RaftNone
    /\ follower_docs = <<>>
    /\ follower_changes = <<>>
    /\ follower_log = {}
    /\ commit_id = RaftNone
    /\ pending_entries = <<>>
    /\ up_to_date = FALSE
    /\ raft_index = RaftNone
    /\ store_changed = RaftNone
    /\ request = NoRequest
    /\ response = NoResponse
    /\ synchronized = [matched |-> RaftNone, prior |-> RaftNone]
    /\ commit_owed = FALSE
    /\ persisted_in_order = TRUE

RaftNext ==
    \/ LeaderInsert
    \/ LeaderUpdate
    \/ LeaderDelete
    \/ FollowerOfEarlierTerm
    \/ BecomeLeader
    \/ Synchronize
    \/ AppendEntriesError
    \/ AppendEntriesUpToDate
    \/ UpdateLog
    \/ PushChangesError
    \/ UpdateStore
    \/ Wait

(***************************************************************************)
(* Part III. The ORM layer (jmap/src/jmap_store/orm.rs): one object of a   *)
(* schema with the properties "name" (required, indexed as text) and       *)
(* "note" (neither) and the tagged property "keywords". A JSONValue is a   *)
(* String or Null. HashMap iteration follows a fixed order in the model.   *)
(***************************************************************************)
OrmProperties == <<"name", "note">>
OrmTagProperties == <<"keywords">>
OrmTexts == <<"", "x", "y">>
OrmTags == <<"t1", "t2">>

\* PropertySchema::required / indexed (orm.rs 25-26)
required == {"name"}
indexed == {"name"}

JString(text) == [type |-> "String", text |-> text]
JNull == [type |-> "Null", text |-> ""]
JSONValues == {JString(s) : s \in Range(OrmTexts)} \cup {JNull}

\* JSONValue::is_empty: Null and the empty string are empty.
value_is_empty(v) == v.type = "Null" \/ v.text = ""

\* struct TinyORM (orm.rs 30-44): properties and tags, both partial maps.
TinyORM(properties, tags) == [properties |-> properties, tags |-> tags]

PartialMaps(keys, vals) == UNION {[ks -> vals] : ks \in SUBSET keys}

OrmObjects ==
    {TinyORM(ps, ts) : ps \in PartialMaps(Range(OrmProperties), JSONValues),
                       ts \in PartialMaps(Range(OrmTagProperties), SUBSET Range(OrmTags))}

\* The members of a set in the order of a sequence.
Ordered(order, S) == SelectSeq(order, LAMBDA x : x \in S)

\* The operations a Document queues (document.text / document.tag /
\* document.binary), all of one shape.
TextOp(property, text, is_clear) ==
    [kind |-> "text", property |-> property, text |-> text, tag |-> "",
     bytes |-> <<>>, clear |-> is_clear]
TagOp(property, tag, is_clear) ==
    [kind |-> "tag", property |-> property, text |-> "", tag |-> tag,
     bytes |-> <<>>, clear |-> is_clear]
BinaryOp(bytes, is_clear) ==
    [kind |-> "binary", property |-> "0xFF", text |-> "", tag |-> "",
     bytes |-> bytes, clear |-> is_clear]

\* StoreSerialize for TinyORM (orm.rs 384-391): the entries of the two maps
\* written one after the other, <<property, type, text>> and <<property, tags>>.
serialize(orm) ==
    <<[i \in 1 .. Len(Ordered(OrmProperties, DOMAIN orm.properties)) |->
          LET q == Ordered(OrmProperties, DOMAIN orm.properties)[i]
          IN <<q, orm.properties[q].type, orm.properties[q].text>>],
      [i \in 1 .. Len(Ordered(OrmTagProperties, DOMAIN orm.tags)) |->
          LET q == Ordered(OrmTagProperties, DOMAIN orm.tags)[i]
          IN <<q, Ordered(OrmTags, orm.tags[q])>>]>>

\* StoreDeserialize for TinyORM (orm.rs 393-400)
deserialize(bytes) ==
    TinyORM(
        [q \in {bytes[1][i][1] : i \in 1 .. Len(bytes[1])} |->
            LET e == bytes[1][CHOOSE i \in 1 .. Len(bytes[1]) : bytes[1][i][1] = q]
            IN [type |-> e[2], text |-> e[3]]],
        [q \in {bytes[2][i][1] : i \in 1 .. Len(bytes[2])} |->
            Range(bytes[2][CHOOSE i \in 1 .. Len(bytes[2]) : bytes[2][i][1] = q][2])])

\* insert_orm (orm.rs 352-361)
insert_orm(orm, document) == Append(document, BinaryOp(serialize(orm), FALSE))

\* get_orm (orm.rs 416-430): the snapshot read back, <<>> for None.
get_orm == IF orm_stored = <<>> THEN <<>> ELSE <<deserialize(orm_stored[1])>>

\* TinyORM::update_document with is_delete = FALSE (orm.rs 300-350)
RECURSIVE IndexProperties(_, _, _)
IndexProperties(orm, document, i) ==
    IF i > Len(OrmProperties) THEN document
    ELSE LET q == OrmProperties[i]
         IN IndexProperties(orm,
                IF q \in DOMAIN orm.properties /\ q \in indexed
                   /\ orm.properties[q].type = "String"
                THEN Append(document, TextOp(q, orm.properties[q].text, FALSE))
                ELSE document,
                i + 1)

\* for tag in tags: document.tag(property, tag, options) for the tags of a set
TagOps(property, tags, is_clear) ==
    [i \in 1 .. Len(Ordered(OrmTags, tags)) |->
        TagOp(property, Ordered(OrmTags, tags)[i], is_clear)]

RECURSIVE TagAll(_, _, _)
TagAll(orm, document, i) ==
    IF i > Len(OrmTagProperties) THEN document
    ELSE LET q == OrmTagProperties[i]
         IN TagAll(orm,
                IF q \in DOMAIN orm.tags
                THEN document \o TagOps(q, orm.tags[q], FALSE) ELSE document,
                i + 1)

orm_update_document(orm, document) ==
    IF indexed = {} /\ DOMAIN orm.tags = {} THEN document
    ELSE TagAll(orm, IndexProperties(orm, document, 1), 1)

\* TinyORM::insert (orm.rs 144-148)
orm_insert(orm, document) == orm_update_document(orm, insert_orm(orm, document))

\* An insert_validate that finds no required property missing or empty.
InsertInvalidNever(orm, q) == FALSE

\* The test of insert_validate on a required property (orm.rs 129-133)
InsertInvalid(orm, q) ==
    IF q \in DOMAIN orm.properties THEN value_is_empty(orm.properties[q]) ELSE TRUE

\* insert_validate (orm.rs 127-142): [ok, document]
insert_validate(orm, document) ==
    IF \E q \in required : InsertInvalid(orm, q)
    THEN [ok |-> FALSE, document |-> document]
    ELSE [ok |-> TRUE, document |-> orm_insert(orm, document)]

\* A merge that skips no change: every value is taken as different.
SameValueNever(current_value, value) == FALSE

\* current_value == &value (orm.rs 210): the change is skipped
SameValue(current_value, value) == current_value = value

\* A merge that queues the new value of a property and never clears the old.
MergePropertySetOnly(acc, q, value) ==
    LET has == q \in DOMAIN acc.self.properties
    IN IF has /\ SameValue(acc.self.properties[q], value) THEN acc
       ELSE IF value.type = "Null"
       THEN [self |-> [acc.self EXCEPT !.properties = DeleteRow(@, q)],
             document |-> acc.document]
       ELSE [self |-> [acc.self EXCEPT !.properties = PutRow(@, q, value)],
             document |-> IF q \in indexed
                          THEN Append(acc.document, TextOp(q, value.text, FALSE))
                          ELSE acc.document]

\* One iteration of the loop over changes.properties (orm.rs 196-253);
\* acc is [self, document].
MergeProperty(acc, q, value) ==
    LET has == q \in DOMAIN acc.self.properties
        cleared == IF has /\ q \in indexed /\ acc.self.properties[q].type = "String"
                   THEN Append(acc.document, TextOp(q, acc.self.properties[q].text, TRUE))
                   ELSE acc.document
    IN IF has /\ SameValue(acc.self.properties[q], value) THEN acc
       ELSE IF value.type = "Null"
       THEN [self |-> [acc.self EXCEPT !.properties = DeleteRow(@, q)],
             document |-> cleared]
       ELSE [self |-> [acc.self EXCEPT !.properties = PutRow(@, q, value)],
             document |-> IF q \in indexed
                          THEN Append(cleared, TextOp(q, value.text, FALSE))
                          ELSE cleared]

RECURSIVE MergeProperties(_, _, _)
MergeProperties(acc, changes, i) ==
    IF i > Len(OrmProperties) THEN acc
    ELSE LET q == OrmProperties[i]
         IN MergeProperties(
                IF q \in DOMAIN changes.properties
                THEN MergeProperty(acc, q, changes.properties[q]) ELSE acc,
                changes, i + 1)

\* The first loop over self.tags (orm.rs 256-266): the tags the change lacks
\* are cleared, for the properties both maps hold.
RECURSIVE ClearTags(_, _, _, _)
ClearTags(tags, changed, document, i) ==
    IF i > Len(OrmTagProperties) THEN document
    ELSE LET q == OrmTagProperties[i]
         IN ClearTags(tags, changed,
                IF q \in DOMAIN tags /\ q \in DOMAIN changed /\ tags[q] # changed[q]
                THEN document \o TagOps(q, tags[q] \ changed[q], TRUE)
                ELSE document,
                i + 1)

\* The second loop over changes.tags (orm.rs 268-282)
RECURSIVE SetTags(_, _, _, _)
SetTags(tags, changed, document, i) ==
    IF i > Len(OrmTagProperties) THEN document
    ELSE LET q == OrmTagProperties[i]
         IN SetTags(tags, changed,
                IF q \notin DOMAIN changed THEN document
                ELSE IF q \in DOMAIN tags
                THEN (IF changed[q] # tags[q]
                      THEN document \o TagOps(q, changed[q] \ tags[q], FALSE)
                      ELSE document)
                ELSE document \o TagOps(q, changed[q], FALSE),
                i + 1)

\* TinyORM::merge (orm.rs 193-293): [self, document, changed], changed the
\* boolean returned.
merge(orm, document, changes) ==
    LET a == MergeProperties([self |-> orm, document |-> document], changes, 1)
        b == IF a.self.tags # changes.tags
             THEN [self |-> [a.self EXCEPT !.tags = changes.tags],
                   document |-> SetTags(a.self.tags, changes.tags,
                                    ClearTags(a.self.tags, changes.tags, a.document, 1), 1)]
             ELSE a
    IN IF b.document # <<>>
       THEN [self |-> b.self, document |-> insert_orm(b.self, b.document), changed |-> TRUE]
       ELSE [self |-> b.self, document |-> b.document, changed |-> FALSE]

\* The test of merge_validate on a required property (orm.rs 156-160)
MergeInvalid(orm, changes, q) ==
    IF q \in DOMAIN changes.properties THEN value_is_empty(changes.properties[q])
    ELSE q \notin DOMAIN orm.properties

\* merge_validate (orm.rs 150-169): [ok, self, document, changed]
merge_validate(orm, document, changes) ==
    IF \E q \in required : MergeInvalid(orm, changes, q)
    THEN [ok |-> FALSE, self |-> orm, document |-> document, changed |-> FALSE]
    ELSE LET r == merge(orm, document, changes)
         IN [ok |-> TRUE, self |-> r.self, document |-> r.document, changed |-> r.changed]

\* The write of a Document: update_document of the pipeline for the text
\* (insert.rs 304-349), tag (351-361) and stored binary (362-372) operations.
RECURSIVE OrmWrite(_, _, _)
OrmWrite(rows, document, i) ==
    IF i > Len(document) THEN rows
    ELSE LET o == document[i]
         IN OrmWrite(
                CASE o.kind = "text" ->
                        [rows EXCEPT !.index = IF o.clear THEN @ \ {<<o.property, o.text>>}
                                               ELSE @ \cup {<<o.property, o.text>>}]
                  [] o.kind = "tag" ->
                        [rows EXCEPT !.bits = IF o.clear THEN @ \ {<<o.property, o.tag>>}
                                              ELSE @ \cup {<<o.property, o.tag>>}]
                  [] o.kind = "binary" ->
                        [rows EXCEPT !.stored = <<o.bytes>>],
                document, i + 1)

OrmCommit(document) ==
    LET rows == OrmWrite([stored |-> orm_stored, index |-> orm_index, bits |-> orm_bits],
                         document, 1)
    IN /\ orm_stored' = rows.stored
       /\ orm_index' = rows.index
       /\ orm_bits' = rows.bits

\* A set handler creating the object: insert_validate on a new Document,
\* written when the validation passes.
OrmInsert ==
    \E orm \in OrmObjects :
        LET r == insert_validate(orm, <<>>)
        IN /\ orm_stored = <<>>
           /\ IF r.ok
              THEN /\ OrmCommit(r.document)
                   /\ orm_last' = <<orm>>
                   /\ orm_result' = "inserted"
              ELSE /\ UNCHANGED <<orm_stored, orm_index, orm_bits, orm_last>>
                   /\ orm_result' = "invalid"
           /\ orm_ops' = r.document
           /\ UNCHANGED notOrmVars

\* A set handler updating the object: the current object is read with get_orm,
\* merge_validate runs on a new Document, which is written when the merge
\* returns true.
OrmMerge ==
    \E changes \in OrmObjects :
        /\ orm_stored # <<>>
        /\ LET r == merge_validate(get_orm[1], <<>>, changes)
           IN /\ IF r.ok /\ r.changed
                 THEN OrmCommit(r.document)
                 ELSE UNCHANGED <<orm_stored, orm_index, orm_bits>>
              /\ orm_last' = IF r.ok THEN <<r.self>> ELSE orm_last
              /\ orm_result' = IF ~r.ok THEN "invalid"
                               ELSE IF r.changed THEN "merged" ELSE "unchanged"
              /\ orm_ops' = r.document
        /\ UNCHANGED notOrmVars

OrmInit ==
    /\ orm_stored = <<>>
    /\ orm_index = {}
    /\ orm_bits = {}
    /\ orm_last = <<>>
    /\ orm_ops = <<>>
    /\ orm_result = "none"

OrmNext ==
    \/ OrmInsert
    \/ OrmMerge

(***************************************************************************)
(* Part IV. Change ids under concurrent calls of update_documents: a call  *)
(* takes its change id under the assigner's mutex (insert.rs 126-130,      *)
(* 174-185) and writes the changelog row later, with the batch (152-169).  *)
(***************************************************************************)
\* The threads that call update_documents concurrently.
MaxThreads == 2
Threads == 1 .. MaxThreads

\* assign_change_id (insert.rs 174-185): next_change_id++ of the assigner,
\* which is seeded from storage when it is not cached.
AssignChangeId ==
    \E thread \in Threads :
        LET a == get_id_assigner
        IN /\ thread_change_id[thread] = -1
           /\ a.next_change_id < MaxChanges
           /\ id_assigner' = [a EXCEPT !.next_change_id = @ + 1]
           /\ thread_change_id' = [thread_change_id EXCEPT ![thread] = a.next_change_id]
           /\ handed_change_ids' = handed_change_ids \cup {a.next_change_id}
           /\ UNCHANGED <<values, indexes, bitmaps, blob_lists, blob_counts, blob_store,
                          change_log, uncommitted, inserted_ids, deleted_ids, purged_ids,
                          commits>>
           /\ UNCHANGED <<raftVars, ormVars, taskVars, batchVars>>

\* The changelog row put under the change id and db.write (insert.rs 152-169);
\* write_ok = FALSE is the error of db.write.
WriteChangeLog ==
    \E thread \in Threads, write_ok \in BOOLEAN :
        LET c == thread_change_id[thread]
        IN /\ c # -1
           /\ thread_change_id' = [thread_change_id EXCEPT ![thread] = -1]
           /\ change_log' = IF write_ok THEN change_log \cup {c} ELSE change_log
           /\ commits' = IF write_ok THEN [commits EXCEPT ![c] = @ + 1] ELSE commits
           /\ UNCHANGED <<values, indexes, bitmaps, blob_lists, blob_counts, blob_store,
                          id_assigner, uncommitted, inserted_ids, deleted_ids, purged_ids,
                          handed_change_ids>>
           /\ UNCHANGED <<raftVars, ormVars, taskVars, batchVars>>

ChangeInit ==
    /\ thread_change_id = [thread \in Threads |-> -1]
    /\ handed_change_ids = {}
    /\ commits = [c \in ChangeIds |-> 0]

ChangeNext ==
    \/ AssignChangeId
    \/ WriteChangeLog
    \/ InvalidateAll

(***************************************************************************)
(* Part V. The control flow of the leader task of one peer                 *)
(* (spawn_raft_leader, log.rs 99-353) with its three channels, and the     *)
(* peer's handling of the term (log.rs 428-484). The position of the task  *)
(* is task.pc: "poll" at the top of the loop, "request" at the match on    *)
(* the state, "await" in send_request, "online" in the 'online loop,       *)
(* "exited" after a break. A Raft id of the task's term is its index.      *)
(* What a request carries in documents is the subject of Part II; here a   *)
(* PushChanges state counts the UpdateStore requests it still has to send. *)
(***************************************************************************)
\* Raft indexes are 0 .. MaxIndex, 0 being RaftId::none().
MaxIndex == 2
\* Terms are 0 .. MaxTerm.
MaxTerm == 2
\* UpdateStore requests one NeedUpdates response leads to, at most.
MaxPush == 2

\* let term = self.term (log.rs 105): the term the task was spawned in.
term == 1

TaskRequest(kind, log, last, commit) ==
    [kind |-> kind, term |-> term, last_log |-> log, last |-> last,
     commit |-> commit]

NoTaskRequest == [kind |-> "", term |-> 0, last_log |-> 0, last |-> 0, commit |-> FALSE]

TaskResponse(kind, peer_term, success, matched) ==
    [kind |-> kind, term |-> peer_term, success |-> success, matched |-> matched]

NoTaskResponse == TaskResponse("", 0, FALSE, 0)

\* tokio::sync::watch: changed() is ready with Ok when a value has been sent
\* that the receiver has not seen, and with Err when there is none and the
\* sender is gone.
changed_ok(tx) == tx.unseen

changed_err(tx) == ~tx.unseen /\ tx.closed

\* What every step of the task leaves alone.
TaskFrame ==
    /\ UNCHANGED <<raft_entries, peer_tx_closed, peer>>
    /\ UNCHANGED notTaskVars

\* The poll of log_index_rx at the top of 'main (log.rs 119-140).
Poll ==
    /\ task.pc = "poll"
    /\ IF changed_ok(log_index_tx)
       THEN /\ task' = [task EXCEPT !.pc = "request",
                                    !.last_log = log_index_tx.value,
                                    !.state = IF @ = "Wait" THEN "AppendEntries" ELSE @]
            /\ log_index_tx' = [log_index_tx EXCEPT !.unseen = FALSE]
       ELSE /\ task' = [task EXCEPT !.pc = IF changed_err(log_index_tx)
                                            THEN "exited" ELSE "request"]
            /\ UNCHANGED log_index_tx
    /\ UNCHANGED <<online_tx, rpc, main_tx>>
    /\ TaskFrame

\* send_request (log.rs 716-726, 221-230): None when the peer's channel is
\* closed, and the task breaks.
send_request(next, req) ==
    IF peer_tx_closed
    THEN /\ task' = [next EXCEPT !.pc = "exited"]
         /\ UNCHANGED rpc
    ELSE /\ task' = [next EXCEPT !.pc = "await"]
         /\ rpc' = [request |-> req, response |-> NoTaskResponse]

\* A leader task that goes on to AppendEntries once BecomeFollower is sent.
SkipsSynchronize(t) == [t EXCEPT !.state = "AppendEntries", !.synchronized = FALSE]

\* state = State::Synchronize (log.rs 144): a round of synchronisation begins.
ToSynchronize(t) == [t EXCEPT !.state = "Synchronize", !.synchronized = FALSE]

\* State::BecomeLeader (log.rs 143-146)
SendBecomeFollower ==
    /\ task.pc = "request"
    /\ task.state = "BecomeLeader"
    /\ send_request(ToSynchronize(task),
                    TaskRequest("BecomeFollower", task.last_log, 0, FALSE))
    /\ UNCHANGED <<log_index_tx, online_tx, main_tx>>
    /\ TaskFrame

\* State::Synchronize (log.rs 147-150)
SendSynchronize ==
    /\ task.pc = "request"
    /\ task.state = "Synchronize"
    /\ send_request(task, TaskRequest("Synchronize", task.last_log, 0, FALSE))
    /\ UNCHANGED <<log_index_tx, online_tx, main_tx>>
    /\ TaskFrame

\* State::PushChanges (log.rs 151-162): prepare_changes fails and the
\* iteration is abandoned, or the next UpdateStore is sent; the last one of
\* the state carries Change::Commit.
SendUpdateStore ==
    /\ task.pc = "request"
    /\ task.state = "PushChanges"
    /\ \E prepared \in BOOLEAN :
           IF prepared
           THEN send_request(task, TaskRequest("UpdateStore", task.last_log, 0,
                                               task.push_left = 1))
           ELSE /\ task' = [task EXCEPT !.pc = "poll"]
                /\ UNCHANGED rpc
    /\ UNCHANGED <<log_index_tx, online_tx, main_tx>>
    /\ TaskFrame

\* State::Wait (log.rs 163-178): the task is suspended in
\* log_index_rx.changed() until the watcher fires or is dropped.
WaitChanged ==
    /\ task.pc = "request"
    /\ task.state = "Wait"
    /\ \/ /\ changed_ok(log_index_tx)
          /\ task' = [task EXCEPT !.pc = "poll", !.state = "AppendEntries",
                                  !.last_log = log_index_tx.value]
          /\ log_index_tx' = [log_index_tx EXCEPT !.unseen = FALSE]
       \/ /\ changed_err(log_index_tx)
          /\ task' = [task EXCEPT !.pc = "exited"]
          /\ UNCHANGED log_index_tx
    /\ UNCHANGED <<online_tx, rpc, main_tx>>
    /\ TaskFrame

\* get_raft_entries(last_sent_id, BATCH_MAX_ENTRIES) on the leader's store:
\* the ids of the entries read, in log order.
EntriesAfter(from_id) ==
    LET n == IF raft_entries - from_id > BATCH_MAX_ENTRIES
             THEN BATCH_MAX_ENTRIES ELSE raft_entries - from_id
    IN [i \in 1 .. (IF n > 0 THEN n ELSE 0) |-> from_id + i]

\* State::AppendEntries, Err(err) (log.rs 211-216): the id the reading resumes from.
ReadErrorResets(t) == t.last_commited_id

\* State::AppendEntries (log.rs 179-218)
SendUpdateLog ==
    /\ task.pc = "request"
    /\ task.state = "AppendEntries"
    /\ \E read_ok \in BOOLEAN :
           LET entries == EntriesAfter(task.last_sent_id)
           IN IF read_ok /\ entries # <<>>
              THEN send_request([task EXCEPT !.last_sent_id = entries[Len(entries)],
                                             !.sent_up_to = entries[Len(entries)]],
                                TaskRequest("UpdateLog", task.last_log,
                                            entries[Len(entries)], FALSE))
              ELSE /\ task' = [task EXCEPT !.pc = "poll", !.state = "Wait",
                                           !.last_sent_id = IF read_ok THEN @
                                                            ELSE ReadErrorResets(task)]
                   /\ UNCHANGED rpc
    /\ UNCHANGED <<log_index_tx, online_tx, main_tx>>
    /\ TaskFrame

\* spec 5: a call to a peer that gets no answer within its deadline, and one
\* whose response channel is dropped (log.rs 725), gives Response::None.
RpcFails ==
    /\ task.pc = "await"
    /\ rpc.response = NoTaskResponse
    /\ rpc' = [rpc EXCEPT !.response = TaskResponse("None", 0, FALSE, 0)]
    /\ UNCHANGED <<task, log_index_tx, online_tx, main_tx>>
    /\ TaskFrame

\* log_is_behind_or_eq (log.rs 440; its code is not part of the sources):
\* the node's log does not reach beyond the leader's last_log.
log_is_behind_or_eq(node, index) == node.last_log <= index

\* The follower task's answer to Synchronize (log.rs 365-400): the id
\* get_prev_raft_id gives for last_log, or none when its read fails.
follower_synchronize(node, index, read_ok) ==
    TaskResponse("SynchronizeLog", 0, FALSE,
                 IF ~read_ok THEN 0
                 ELSE IF node.last_log <= index THEN node.last_log ELSE index)

\* A node that takes the term of every request.
TakesEveryTerm(self_term, request_term) == request_term

\* log.rs 435-437 and 464-466: the term of the node after a request.
TakesGreaterTerm(self_term, request_term) ==
    IF self_term < request_term THEN request_term ELSE self_term

\* A node that follows every leader of its term, whatever its own log holds.
AcceptsLeaderOnTerm(self_term, node, req) == self_term = req.term

\* The test of handle_become_follower (log.rs 439)
AcceptsLeader(self_term, node, req) ==
    self_term = req.term /\ log_is_behind_or_eq(node, req.last_log)

\* handle_become_follower (log.rs 428-455)
handle_become_follower(node, req, read_ok) ==
    LET self_term == TakesGreaterTerm(node.term, req.term)
    IN IF AcceptsLeader(self_term, node, req)
       THEN [node |-> [node EXCEPT !.term = self_term, !.following = TRUE],
             response |-> follower_synchronize(node, req.last_log, read_ok)]
       ELSE [node |-> [node EXCEPT !.term = self_term],
             response |-> TaskResponse("BecomeFollower", self_term, FALSE, 0)]

\* The follower task's answer to UpdateLog and UpdateStore (log.rs 401-421,
\* 487-672): answer is "NeedUpdates", "Continue" or "None"; the entries are
\* in the node's log once they are committed.
follower_update(node, req, answer) ==
    [node |-> [node EXCEPT !.last_log =
                   IF answer = "Continue"
                      /\ (req.kind = "UpdateLog" \/ req.commit)
                      /\ req.last > @
                   THEN req.last ELSE @],
     response |-> TaskResponse(answer, 0, FALSE, 0)]

\* A node that hands every AppendEntries request to a follower task.
HandsToFollowerAlways(node) == TRUE

\* match self.is_following_peer(peer_id) (log.rs 468-469): Some(tx) when the
\* node follows the sender.
HandsToFollower(node) == node.following

\* handle_append_entries (log.rs 457-484)
handle_append_entries(node, req, read_ok, answer) ==
    LET self_term == TakesGreaterTerm(node.term, req.term)
        next == [node EXCEPT !.term = self_term]
    IN IF HandsToFollower(node)
       THEN IF req.kind = "Synchronize"
            THEN [node |-> next,
                  response |-> follower_synchronize(node, req.last_log, read_ok)]
            ELSE follower_update(next, req, answer)
       ELSE [node |-> next,
             response |-> TaskResponse("BecomeFollower", self_term, FALSE, 0)]

\* The answers the follower task gives to a request of the kind.
Answers(kind) ==
    IF kind = "UpdateLog" THEN {"NeedUpdates", "Continue", "None"}
    ELSE IF kind = "UpdateStore" THEN {"Continue", "None"}
    ELSE {"Continue"}

\* The peer handles the request in flight.
PeerHandles ==
    /\ task.pc = "await"
    /\ rpc.response = NoTaskResponse
    /\ \E read_ok \in BOOLEAN, answer \in Answers(rpc.request.kind) :
           LET r == IF rpc.request.kind = "BecomeFollower"
                    THEN handle_become_follower(peer, rpc.request, read_ok)
                    ELSE handle_append_entries(peer, rpc.request, read_ok, answer)
           IN /\ peer' = r.node
              /\ rpc' = [rpc EXCEPT !.response = r.response]
    /\ UNCHANGED <<task, raft_entries, log_index_tx, online_tx, peer_tx_closed, main_tx>>
    /\ UNCHANGED notTaskVars

\* spec 4.7: a peer answers BecomeFollower{term, success}, and the task
\* steps down "if peer_term > term or !success"; the handlers of log.rs
\* answer with success = false only, so the acceptance is the answer of a
\* peer that passes the test of handle_become_follower.
PeerAccepts ==
    /\ task.pc = "await"
    /\ rpc.response = NoTaskResponse
    /\ rpc.request.kind = "BecomeFollower"
    /\ AcceptsLeader(TakesGreaterTerm(peer.term, rpc.request.term), peer, rpc.request)
    /\ peer' = [peer EXCEPT !.term = rpc.request.term, !.following = TRUE]
    /\ rpc' = [rpc EXCEPT !.response =
                   TaskResponse("BecomeFollower", rpc.request.term, TRUE, 0)]
    /\ UNCHANGED <<task, raft_entries, log_index_tx, online_tx, peer_tx_closed, main_tx>>
    /\ UNCHANGED notTaskVars

\* A leader task that steps down on a greater term only.
StepsDownOnTerm(peer_term, success) == peer_term > term

\* log.rs 236: if !success || peer_term > term
StepsDown(peer_term, success) == ~success \/ peer_term > term

\* Response::BecomeFollower (log.rs 232-245)
ReceiveBecomeFollower ==
    /\ task.pc = "await"
    /\ rpc.response.kind = "BecomeFollower"
    /\ IF StepsDown(rpc.response.term, rpc.response.success)
       THEN /\ main_tx' = Append(main_tx, [kind |-> "StepDown", term |-> rpc.response.term])
            /\ task' = [task EXCEPT !.pc = "exited"]
       ELSE /\ task' = [task EXCEPT !.pc = "poll"]
            /\ UNCHANGED main_tx
    /\ UNCHANGED <<log_index_tx, online_tx, rpc>>
    /\ TaskFrame

\* Response::SynchronizeLog (log.rs 247-275): get_next_raft_id returns the id
\* matched when the leader's log holds it, the task breaks otherwise.
ReceiveSynchronizeLog ==
    /\ task.pc = "await"
    /\ rpc.response.kind = "SynchronizeLog"
    /\ \E read_ok \in BOOLEAN :
           LET matched == rpc.response.matched
           IN IF matched # 0 /\ ~(read_ok /\ matched <= raft_entries)
              THEN task' = [task EXCEPT !.pc = "exited"]
              ELSE task' = [task EXCEPT !.pc = "poll", !.state = "AppendEntries",
                                        !.last_commited_id = matched,
                                        !.last_sent_id = matched,
                                        !.synchronized = TRUE,
                                        !.sent_up_to = matched]
    /\ UNCHANGED <<log_index_tx, online_tx, rpc, main_tx>>
    /\ TaskFrame

\* Response::None (log.rs 276-278): the task enters the 'online loop.
ReceiveNone ==
    /\ task.pc = "await"
    /\ rpc.response.kind = "None"
    /\ task' = [task EXCEPT !.pc = "online"]
    /\ UNCHANGED <<log_index_tx, online_tx, rpc, main_tx>>
    /\ TaskFrame

\* The 'online loop, log_index_rx.changed() ready (log.rs 280-299)
OnlineLogIndex ==
    /\ task.pc = "online"
    /\ \/ /\ changed_ok(log_index_tx)
          /\ task' = [task EXCEPT !.last_log = log_index_tx.value]
          /\ log_index_tx' = [log_index_tx EXCEPT !.unseen = FALSE]
       \/ /\ changed_err(log_index_tx)
          /\ task' = [task EXCEPT !.pc = "exited"]
          /\ UNCHANGED log_index_tx
    /\ UNCHANGED <<online_tx, rpc, main_tx>>
    /\ TaskFrame

\* The 'online loop, online_rx.changed() ready (log.rs 300-321), and the
\* restart after the loop (322).
OnlineChanged ==
    /\ task.pc = "online"
    /\ \/ /\ changed_ok(online_tx)
          /\ task' = IF online_tx.value
                     THEN [task EXCEPT !.pc = "poll", !.state = "BecomeLeader"]
                     ELSE task
          /\ online_tx' = [online_tx EXCEPT !.unseen = FALSE]
       \/ /\ changed_err(online_tx)
          /\ task' = [task EXCEPT !.pc = "exited"]
          /\ UNCHANGED online_tx
    /\ UNCHANGED <<log_index_tx, rpc, main_tx>>
    /\ TaskFrame

\* Response::NeedUpdates (log.rs 324-326) and get_next_changes (729-771):
\* a failed read gives State::Synchronize, no change State::AppendEntries,
\* changes State::PushChanges.
ReceiveNeedUpdates ==
    /\ task.pc = "await"
    /\ rpc.response.kind = "NeedUpdates"
    /\ \E read_ok \in BOOLEAN, n \in 0 .. MaxPush :
           task' = [task EXCEPT !.pc = "poll",
                                !.state = IF ~read_ok THEN "Synchronize"
                                          ELSE IF n = 0 THEN "AppendEntries"
                                          ELSE "PushChanges",
                                !.push_left = IF read_ok THEN n ELSE 0]
    /\ UNCHANGED <<log_index_tx, online_tx, rpc, main_tx>>
    /\ TaskFrame

\* Response::Continue (log.rs 327-340)
ReceiveContinue ==
    /\ task.pc = "await"
    /\ rpc.response.kind = "Continue"
    /\ IF task.state = "PushChanges"
       THEN IF task.push_left <= 1
            THEN task' = [task EXCEPT !.pc = "poll", !.state = "AppendEntries",
                                      !.push_left = 0,
                                      !.last_commited_id = task.last_sent_id]
            ELSE task' = [task EXCEPT !.pc = "poll", !.push_left = @ - 1]
       ELSE task' = [task EXCEPT !.pc = "poll"]
    /\ UNCHANGED <<log_index_tx, online_tx, rpc, main_tx>>
    /\ TaskFrame

\* What every step of the task's surroundings leaves alone.
EnvFrame ==
    /\ UNCHANGED <<task, rpc, main_tx>>
    /\ UNCHANGED notTaskVars

\* spec 3: a committed write appends an entry to the leader's Raft log ...
WriteEntry ==
    /\ raft_entries < MaxIndex
    /\ raft_entries' = raft_entries + 1
    /\ UNCHANGED <<log_index_tx, online_tx, peer_tx_closed, peer>>
    /\ EnvFrame

\* ... and the watcher then notifies the leader tasks of the new log index.
PublishIndex ==
    /\ ~log_index_tx.closed
    /\ log_index_tx.value < raft_entries
    /\ log_index_tx' = [log_index_tx EXCEPT !.value = raft_entries, !.unseen = TRUE]
    /\ UNCHANGED <<raft_entries, online_tx, peer_tx_closed, peer>>
    /\ EnvFrame

\* spec 5: the peer's liveness as the cluster sees it changes.
PeerOnline ==
    /\ ~online_tx.closed
    /\ online_tx' = [online_tx EXCEPT !.value = ~@, !.unseen = TRUE]
    /\ UNCHANGED <<raft_entries, log_index_tx, peer_tx_closed, peer>>
    /\ EnvFrame

\* The senders of the three channels are dropped.
CloseLogIndex ==
    /\ ~log_index_tx.closed
    /\ log_index_tx' = [log_index_tx EXCEPT !.closed = TRUE]
    /\ UNCHANGED <<raft_entries, online_tx, peer_tx_closed, peer>>
    /\ EnvFrame

CloseOnline ==
    /\ ~online_tx.closed
    /\ online_tx' = [online_tx EXCEPT !.closed = TRUE]
    /\ UNCHANGED <<raft_entries, log_index_tx, peer_tx_closed, peer>>
    /\ EnvFrame

ClosePeerTx ==
    /\ ~peer_tx_closed
    /\ peer_tx_closed' = TRUE
    /\ UNCHANGED <<raft_entries, log_index_tx, online_tx, peer>>
    /\ EnvFrame

\* spec 4.7: a node that misses its leader becomes a candidate of the next
\* term and follows nobody.
PeerElection ==
    /\ peer.term < MaxTerm
    /\ peer' = [peer EXCEPT !.term = @ + 1, !.following = FALSE]
    /\ UNCHANGED <<raft_entries, log_index_tx, online_tx, peer_tx_closed>>
    /\ EnvFrame

\* let mut state = State::BecomeLeader; last_commited_id and last_sent_id
\* RaftId::none() (log.rs 110-112); the log index the task starts from is
\* the one published, and the peer is online.
TaskInit ==
    /\ task = [pc |-> "poll", state |-> "BecomeLeader", last_log |-> 0,
               last_sent_id |-> 0, last_commited_id |-> 0, push_left |-> 0,
               synchronized |-> FALSE, sent_up_to |-> 0]
    /\ raft_entries = 0
    /\ log_index_tx = [value |-> 0, unseen |-> FALSE, closed |-> FALSE]
    /\ online_tx = [value |-> TRUE, unseen |-> FALSE, closed |-> FALSE]
    /\ peer_tx_closed = FALSE
    /\ rpc = [request |-> NoTaskRequest, response |-> NoTaskResponse]
    /\ main_tx = <<>>
    /\ peer = [term |-> 0, following |-> FALSE, last_log |-> 0]

\* The steps of the leader task.
TaskStep ==
    \/ Poll
    \/ SendBecomeFollower
    \/ SendSynchronize
    \/ SendUpdateStore
    \/ WaitChanged
    \/ SendUpdateLog
    \/ ReceiveBecomeFollower
    \/ ReceiveSynchronizeLog
    \/ ReceiveNone
    \/ OnlineLogIndex
    \/ OnlineChanged
    \/ ReceiveNeedUpdates
    \/ ReceiveContinue

TaskNext ==
    \/ TaskStep
    \/ PeerHandles
    \/ PeerAccepts
    \/ RpcFails
    \/ WriteEntry
    \/ PublishIndex
    \/ PeerOnline
    \/ CloseLogIndex
    \/ CloseOnline
    \/ ClosePeerTx
    \/ PeerElection

(***************************************************************************)
(* Part VI. One call of update_documents with several batches (insert.rs   *)
(* 28-172), as far as the bitmaps go: the loop over the batches fills      *)
(* bitmap_list, the loop of 163-165 turns every key of it into one merge   *)
(* operation of the rocksdb WriteBatch, db.write ends the call. The        *)
(* position of the call is write_call.pc: "batches", "merge", "written"    *)
(* after db.write, "failed" after an error returned by update_document.    *)
(***************************************************************************)
\* The batches of a call are at most MaxWrites.
MaxWrites == 2

\* The tag operations of the fields of a batch.
TagInputs ==
    { <<>>, <<TagField(FALSE)>>, <<TagField(TRUE)>>,
      <<TagField(FALSE), TagField(TRUE)>>, <<TagField(TRUE), TagField(FALSE)>> }

\* One bitmap operation as the code queues it: .entry(key).insert(document_id, polarity)
BitmapOp(key, d, polarity) == [key |-> key, document_id |-> d, polarity |-> polarity]

\* The tag operations of a list of fields, in the order of the fields.
TagOpsOf(d, fields) ==
    LET tags == SelectSeq(fields, LAMBDA f : f.kind = "Tag")
    IN [i \in 1 .. Len(tags) |-> BitmapOp(BM_TAG, d, ~tags[i].clear)]

\* The fields of a batch: tag operations or blob fields.
BatchInputs == TagInputs \cup BlobInputs

\* The blob indexes of a list of fields, in the order of the fields.
BlobIndexesOf(fields) ==
    LET blobs == SelectSeq(fields, LAMBDA f : f.kind = "Binary")
    IN [i \in 1 .. Len(blobs) |-> blobs[i].blob_index]

\* A batch queues its operations on the bitmap_list of the call; r is what
\* update_document returns, and its error ends the call (the ? of insert.rs
\* 80 and 92): nothing is put into the WriteBatch any more and db.write is
\* not reached.
Queue(r, ops, fields) ==
    /\ write_call.pc = "batches"
    /\ write_call.batches < MaxWrites
    /\ write_call' = IF r.ok
                     THEN [write_call EXCEPT
                             !.bitmap_list = r.bitmap_list,
                             !.ops = @ \o ops,
                             !.blob_indexes = Append(@, BlobIndexesOf(fields)),
                             !.batches = @ + 1]
                     ELSE [write_call EXCEPT
                             !.pc = "failed",
                             !.blob_indexes = Append(@, BlobIndexesOf(fields)),
                             !.batches = @ + 1]
    /\ UNCHANGED notBatchVars

\* WriteAction::Insert (insert.rs 42-80)
BatchInsert ==
    \E d \in DocIds, is_freed \in BOOLEAN, fields \in BatchInputs :
        LET freed == IF is_freed
                     THEN BitmapInsert(write_call.bitmap_list, BM_FREED_IDS, d, FALSE)
                     ELSE write_call.bitmap_list
            used == BitmapInsert(freed, BM_USED_IDS, d, TRUE)
        IN Queue(update_document(used, d, fields),
                 (IF is_freed THEN <<BitmapOp(BM_FREED_IDS, d, FALSE)>> ELSE <<>>)
                     \o <<BitmapOp(BM_USED_IDS, d, TRUE)>> \o TagOpsOf(d, fields),
                 fields)

\* WriteAction::Update (insert.rs 81-93)
BatchUpdate ==
    \E d \in DocIds, fields \in BatchInputs :
        Queue(update_document(write_call.bitmap_list, d, fields),
              TagOpsOf(d, fields), fields)

\* WriteAction::Delete (insert.rs 94-123)
BatchDelete ==
    \E d \in DocIds :
        Queue([ok |-> TRUE,
               bitmap_list |-> BitmapInsert(write_call.bitmap_list, BM_TOMBSTONED_IDS, d, TRUE)],
              <<BitmapOp(BM_TOMBSTONED_IDS, d, TRUE)>>, <<>>)

\* The keys bitmap_list holds: an entry is made by the insert that follows it.
KeysOf(bitmap_list) ==
    {k \in BitmapKeys : \E d \in DocIds : bitmap_list[k][d] # "none"}

\* set_clear_bits(doc_id_list.into_iter()): the (document id, polarity) pairs
\* of one key.
set_clear_bits(doc_id_list) ==
    {<<d, doc_id_list[d] = "set">> : d \in {x \in DocIds : doc_id_list[x] # "none"}}

\* One iteration of for (key, doc_id_list) in bitmap_list (insert.rs 163-165):
\* the HashMap is consumed in an order of its own.
MergeKey ==
    /\ write_call.pc \in {"batches", "merge"}
    /\ write_call.batches > 0
    /\ \E key \in KeysOf(write_call.bitmap_list) :
         write_call' = [write_call EXCEPT
            !.pc = "merge",
            !.merges = Append(@, [key |-> key,
                                  bits |-> set_clear_bits(write_call.bitmap_list[key])]),
            !.bitmap_list = [@ EXCEPT ![key] = [d \in DocIds |-> "none"]]]
    /\ UNCHANGED notBatchVars

\* self.db.write(write_batch) (insert.rs 167-171)
WriteBatch ==
    /\ write_call.pc \in {"batches", "merge"}
    /\ write_call.batches > 0
    /\ KeysOf(write_call.bitmap_list) = {}
    /\ write_call' = [write_call EXCEPT !.pc = "written"]
    /\ UNCHANGED notBatchVars

BatchInit ==
    write_call = [pc |-> "batches", batches |-> 0, ops |-> <<>>, blob_indexes |-> <<>>,
                  bitmap_list |-> EmptyBitmapList, merges |-> <<>>]

\* The next call of update_documents.
NextCall ==
    /\ write_call.pc \in {"written", "failed"}
    /\ write_call' = [pc |-> "batches", batches |-> 0, ops |-> <<>>, blob_indexes |-> <<>>,
                      bitmap_list |-> EmptyBitmapList, merges |-> <<>>]
    /\ UNCHANGED notBatchVars

BatchNext ==
    \/ BatchInsert
    \/ BatchUpdate
    \/ BatchDelete
    \/ MergeKey
    \/ WriteBatch
    \/ NextCall

(***************************************************************************)
(* The storage engine as a state machine.                                  *)
(***************************************************************************)
StoreInit ==
    /\ values = <<>>
    /\ indexes = {}
    /\ bitmaps = [k \in BitmapKeys |-> {}]
    /\ blob_lists = <<>>
    /\ blob_counts = <<>>
    /\ blob_store = {}
    /\ change_log = {}
    /\ id_assigner = NotCached
    /\ uncommitted = {}
    /\ inserted_ids = {}
    /\ deleted_ids = {}
    /\ purged_ids = {}

StoreNext ==
    \/ AssignFreed
    \/ AssignNew
    \/ InvalidateAll
    \/ InsertDocument
    \/ UpdateDocument
    \/ DeleteDocument
    \/ purge_tombstoned

Init == StoreInit /\ RaftInit /\ OrmInit /\ ChangeInit /\ TaskInit /\ BatchInit

StoreSpec == Init /\ [][StoreNext]_vars

RaftSpec == Init /\ [][RaftNext]_vars

OrmSpec == Init /\ [][OrmNext]_vars

ChangeSpec == Init /\ [][ChangeNext]_vars

TaskSpec == Init /\ [][TaskNext]_vars

BatchSpec == Init /\ [][BatchNext]_vars

\* The scheduler runs a task that can take a step (spec 5: tasks on a
\* cooperative scheduler), tokio::select! takes a branch that stays ready
\* (log.rs 279), and a peer that is handed a request handles it or the call
\* reaches its deadline.
TaskFairSpec ==
    /\ TaskSpec
    /\ WF_vars(TaskStep)
    /\ WF_vars(OnlineLogIndex)
    /\ WF_vars(OnlineChanged)
    /\ WF_vars(PeerHandles \/ PeerAccepts \/ RpcFails)

(***************************************************************************)
(* Properties of the storage engine.                                       *)
(***************************************************************************)
\* C10: USED_IDS is the set of assigned (inserted) ids without FREED_IDS, so the
\* two are disjoint; an id is in TOMBSTONED_IDS iff its document was deleted and
\* not purged yet, so TOMBSTONED_IDS is a subset of USED_IDS.
C10_BitmapAccounting ==
    /\ bitmaps[BM_USED_IDS] = inserted_ids \ bitmaps[BM_FREED_IDS]
    /\ bitmaps[BM_USED_IDS] \cap bitmaps[BM_FREED_IDS] = {}
    /\ bitmaps[BM_TOMBSTONED_IDS] = deleted_ids
    /\ bitmaps[BM_TOMBSTONED_IDS] \subseteq bitmaps[BM_USED_IDS]

C5_BlobRefcount ==
    \A k \in Blobs :
        LET count == IF k \in DOMAIN blob_counts THEN blob_counts[k] ELSE 0
            refs == {d \in DOMAIN blob_lists \cap DocumentIds : k \in Range(blob_lists[d])}
        IN count >= 0 /\ count = Cardinality(refs)

\* C6: a call of update_documents that returns an error leaves the persisted
\* state as it was before the call.
C6_FailedWriteLeavesNoTrace ==
    [][((InsertDocument \/ UpdateDocument \/ DeleteDocument) /\ change_log' = change_log)
          => Persisted' = Persisted]_vars

\* C8: the assigner never returns the id of a document that is tombstoned and
\* not yet purged.
C8_TombstonedNeverAssigned ==
    [][\A aid \in uncommitted' \ uncommitted :
          aid.id \notin bitmaps[BM_TOMBSTONED_IDS]]_vars

\* C9: an id returned as New is one greater than the highest id assigned so
\* far, hence greater than every id a document was inserted with and every id
\* handed out and not inserted yet.
C9_NewAboveAssigned ==
    [][\A aid \in uncommitted' \ uncommitted :
          aid.kind = "New" =>
              \A d \in inserted_ids \cup {u.id : u \in uncommitted} : aid.id > d]_vars

\* C3: the documents swept by a purge are in no query result, have no stored
\* value, index row, tag bit or blob list left, and are in FREED_IDS and in
\* neither USED_IDS nor TOMBSTONED_IDS; once every document was deleted and
\* purged the store holds no key of the documents, no blob counter included.
C3_TombstoneIsolation ==
    /\ \A d \in purged_ids :
         /\ \A filter \in Filters, sort \in Comparators :
                d \notin Range(query(filter, sort))
         /\ d \notin DOMAIN values
         /\ \A row \in indexes : row[2] # d
         /\ d \notin bitmaps[BM_TAG]
         /\ d \notin DOMAIN blob_lists
         /\ d \in bitmaps[BM_FREED_IDS]
         /\ d \notin bitmaps[BM_USED_IDS]
         /\ d \notin get_tombstoned_ids
    /\ (purged_ids # {} /\ inserted_ids \subseteq purged_ids) =>
         /\ DOMAIN values = {}
         /\ indexes = {}
         /\ DOMAIN blob_lists = {}
         /\ DOMAIN blob_counts = {}

\* C11: for every document the index family holds the row (value, document)
\* iff value is the document's current stored value of the sorted field.
C11_IndexConsistency ==
    \A d \in DocIds, v \in Values :
        <<v, d>> \in indexes <=> (d \in DOMAIN values /\ values[d] = v)


(***************************************************************************)
(* Properties of the ORM layer.                                            *)
(***************************************************************************)
\* C12: after an insert and any sequence of merges that returned without an
\* error, the snapshot read back from field 0xFF equals the property map and
\* the tag sets the last merge produced.
C12_SnapshotIsLastMerge ==
    orm_last # <<>> => get_orm = orm_last

\* C13: merge(prev, prev) queues no operation and returns false; after
\* merge(prev, next) a further merge of the result with next, or with itself,
\* queues nothing and leaves the object as the first merge left it.
C13_MergeIdempotent ==
    orm_stored # <<>> =>
        LET prev == get_orm[1]
            same == merge(prev, <<>>, prev)
        IN /\ same.document = <<>>
           /\ ~same.changed
           /\ same.self = prev
           /\ \A next \in OrmObjects :
                LET r == merge(prev, <<>>, next)
                    again == merge(r.self, <<>>, next)
                    itself == merge(r.self, <<>>, r.self)
                IN /\ again.document = <<>> /\ ~again.changed /\ again.self = r.self
                   /\ itself.document = <<>> /\ ~itself.changed /\ itself.self = r.self

\* A merge that changed the indexed property and the tags was written, and the
\* merge after it found nothing to change.
C13_Witness ==
    /\ orm_result = "unchanged"
    /\ orm_ops = <<>>
    /\ get_orm = orm_last
    /\ orm_bits # {}
    /\ <<"name", "y">> \in orm_index

\* C14: a validation that fails queues no operation and writes nothing; an
\* insert is rejected iff a required property is missing or empty, a merge iff
\* a change sets a required property to an empty value or neither the change
\* nor the current object has it; every stored snapshot has all required
\* properties non-empty.
C14_ValidationKeepsRequired ==
    /\ [](/\ \A orm \in OrmObjects :
                insert_validate(orm, <<>>).ok <=>
                    \A q \in required :
                        q \in DOMAIN orm.properties /\ ~value_is_empty(orm.properties[q])
          /\ orm_stored # <<>> =>
                /\ \A q \in required :
                      /\ q \in DOMAIN get_orm[1].properties
                      /\ get_orm[1].properties[q].type = "String"
                      /\ get_orm[1].properties[q].text # ""
                /\ \A changes \in OrmObjects :
                      merge_validate(get_orm[1], <<>>, changes).ok <=>
                          \A q \in required :
                              IF q \in DOMAIN changes.properties
                              THEN ~value_is_empty(changes.properties[q])
                              ELSE q \in DOMAIN get_orm[1].properties)
    /\ [][orm_result' = "invalid" =>
             /\ orm_ops' = <<>>
             /\ orm_stored' = orm_stored
             /\ orm_index' = orm_index
             /\ orm_bits' = orm_bits]_vars

\* A merge of a stored object was rejected by the validation.
C14_Witness ==
    /\ orm_result = "invalid"
    /\ orm_stored # <<>>

(***************************************************************************)
(* Properties of the change ids.                                           *)
(***************************************************************************)
\* C15: every change id assign_change_id returns is strictly greater than all
\* ids it returned before, and no two commits write their changelog row under
\* the same change id, also when the calls of update_documents interleave.
C15_ChangeIdsIncrease ==
    /\ [](\A c \in ChangeIds : commits[c] <= 1)
    /\ [][\A c \in handed_change_ids' \ handed_change_ids :
             \A b \in handed_change_ids : b < c]_vars
    /\ [][handed_change_ids' # handed_change_ids \/ ~(AssignChangeId)]_vars

(***************************************************************************)
(* Properties of the replication.                                          *)
(***************************************************************************)
\* The replay has ended: the follower has committed the entries it was sent,
\* which are all the entries of the leader's log.
CaughtUp ==
    /\ state.name \in {"AppendEntries", "Wait"}
    /\ pending_entries = <<>>
    /\ leader_log # <<>>
    /\ follower_log = 1 .. Len(leader_log)

\* get_changes(account, collection, since = 0): the ids inserted, updated and
\* deleted by the entries of a changelog.
get_changes(log) ==
    [inserts |-> {log[i].id : i \in {j \in DOMAIN log : log[j].action = "Insert"}},
     updates |-> {log[i].id : i \in {j \in DOMAIN log : log[j].action = "Update"}},
     deletes |-> {log[i].id : i \in {j \in DOMAIN log : log[j].action = "Delete"}}]

\* C1: once the follower, started empty, has committed the log entries of the
\* replay, every document readable on the leader is readable on the follower
\* with the same stored values and tags.
C1_CatchUpComplete ==
    CaughtUp =>
        \A d \in DOMAIN leader_docs :
            d \in DOMAIN follower_docs /\ follower_docs[d] = leader_docs[d]

\* C2: after a replay that ends with the follower having committed the entries
\* it was sent, get_changes since 0 yields equal change sets on the two nodes
\* and the document queries yield equal id sets.
C2_FollowerConverges ==
    CaughtUp =>
        /\ get_changes(follower_changes) = get_changes(leader_log)
        /\ DOMAIN follower_docs = DOMAIN leader_docs

\* C7: the follower persists the Raft entries in index order: no entry is
\* persisted after an entry with a higher index.
C7_LogMonotonic == persisted_in_order

\* The step is an iteration of the leader task that has sent a request of the
\* kind and received a response: the writes of the leader leave the request
\* and the response of the last iteration in place.
Rpc(kind) ==
    /\ leader_log' = leader_log
    /\ request'.kind = kind
    /\ response'.kind # ""

\* The changes of an UpdateStore end with Change::Commit, which is no other
\* change of the request.
CommitIsLast(push_changes) ==
    /\ push_changes # <<>>
    /\ push_changes[Len(push_changes)] = Commit
    /\ \A i \in 1 .. (Len(push_changes) - 1) : push_changes[i] # Commit

C19_RejectOnMismatch ==
    [][Rpc("UpdateLog") /\ synchronized.prior # synchronized.matched =>
        /\ follower_log' = follower_log
        /\ pending_entries' = pending_entries
        /\ response'.kind \notin {"NeedUpdates", "Continue"}]_vars

\* C20: on SynchronizeLog{matched} with matched not none the leader task
\* continues only if its log holds the id matched, and else terminates, after
\* which it sends no request; when it continues, and when matched is none, it
\* sets last_sent_id and last_commited_id to matched and is in AppendEntries.
C20_LocalMatch ==
    /\ [][(Rpc("BecomeFollower") \/ Rpc("Synchronize")) /\ response'.kind = "SynchronizeLog" =>
            LET matched == response'.matched
            IN /\ matched # RaftNone /\ matched \notin 1 .. Len(leader_log) =>
                      state'.name = "Exited"
               /\ matched = RaftNone => state'.name # "Exited"
               /\ state'.name # "Exited" =>
                      /\ last_sent_id' = matched
                      /\ last_commited_id' = matched
                      /\ state'.name = "AppendEntries"
               /\ state'.name = "Exited" =>
                      /\ last_sent_id' = last_sent_id
                      /\ last_commited_id' = last_commited_id]_vars
    /\ [][state.name = "Exited" => state'.name = "Exited" /\ request' = request]_vars

\* The follower has reported an id of an earlier term that the leader's log,
\* which is not empty, does not hold, and the task has terminated.
C20_Witness ==
    /\ state.name = "Exited"
    /\ response = Response("SynchronizeLog", StaleId, RaftNone)
    /\ leader_log # <<>>
    /\ get_next_raft_id(StaleId) # <<>>

(***************************************************************************)
(* Properties of the leader task.                                          *)
(***************************************************************************)
\* The task handles the response in flight.
Receives(kind) ==
    /\ task.pc = "await"
    /\ rpc.response.kind = kind
    /\ task' # task

\* The task hands a request of the kind to send_request and the peer's
\* channel takes it.
Sends(kind) ==
    /\ task.pc = "request"
    /\ task'.pc = "await"
    /\ rpc'.request.kind = kind

\* C21: a BecomeFollower response with success false or with a term greater
\* than the task's makes the task send StepDown with the peer's term to the
\* main loop and exit, and an exited task sends nothing more; a response with
\* success true and a term not greater leaves the task running, with no event
\* sent.
C21_StepDown ==
    [][/\ Receives("BecomeFollower") =>
            IF ~rpc.response.success \/ rpc.response.term > term
            THEN /\ main_tx' = Append(main_tx, [kind |-> "StepDown",
                                                term |-> rpc.response.term])
                 /\ task'.pc = "exited"
            ELSE /\ main_tx' = main_tx
                 /\ task'.pc = "poll"
                 /\ task'.state = task.state
       /\ task.pc = "exited" => task' = task /\ rpc' = rpc]_vars

\* The task has stepped down on the answer of a peer of a greater term.
C21_Witness ==
    /\ task.pc = "exited"
    /\ rpc.response.kind = "BecomeFollower"
    /\ rpc.response.term > term
    /\ main_tx = <<[kind |-> "StepDown", term |-> rpc.response.term]>>

\* C22: a task that waits after Response::None while the peer is online
\* eventually leaves the wait (to restart at BecomeLeader, or to exit on a
\* closed channel), unless the peer goes offline.
C22_RestartsOnceOnline ==
    (task.pc = "online" /\ online_tx.value)
        ~> (task.pc # "online" \/ ~online_tx.value)

\* C23: a running task does not stay in state Wait while the log index
\* published is beyond last_sent_id: it eventually leaves Wait (for
\* AppendEntries, where it reads and sends the entries that follow), unless
\* it exits or one of its channels is closed.
C23_LeavesWait ==
    (task.state = "Wait" /\ task.pc # "exited"
                         /\ log_index_tx.value > task.last_sent_id)
        ~> (\/ task.state # "Wait"
            \/ task.pc = "exited"
            \/ log_index_tx.closed \/ online_tx.closed \/ peer_tx_closed)

\* C24: once the log-index watch channel is closed the task hands no
\* request to the peer any more.
C24_NoRequestAfterClose ==
    [][log_index_tx.closed => ~(task.pc = "request" /\ task'.pc = "await")]_vars

\* C25: the request a task in state BecomeLeader sends is BecomeFollower with
\* its term and last_log, and an UpdateLog or UpdateStore is sent only by a
\* task that has received SynchronizeLog since that BecomeFollower; the states
\* that send them, and Wait, are entered only after that response.
C25_SynchronizeFirst ==
    /\ [](task.state \in {"AppendEntries", "PushChanges", "Wait"} => task.synchronized)
    /\ [][/\ (task.state = "BecomeLeader" /\ task.pc = "request" /\ task'.pc = "await")
               => rpc'.request = TaskRequest("BecomeFollower", task.last_log, 0, FALSE)
          /\ (Sends("UpdateLog") \/ Sends("UpdateStore"))
               => (task.synchronized /\ task.state # "BecomeLeader")]_vars

\* The task has sent BecomeFollower, received SynchronizeLog, and an UpdateLog
\* is in flight to a peer that has taken entries before.
C25_Witness ==
    /\ task.pc = "await"
    /\ rpc.request.kind = "UpdateLog"
    /\ rpc.response = NoTaskResponse
    /\ task.synchronized
    /\ peer.last_log > 0

\* C26: the entries of an UpdateLog begin right after the last entry sent
\* since the last synchronisation (after the id matched, when none was sent):
\* between two synchronisations no entry is skipped and none is sent twice.
C26_NoEntryTwice ==
    [][Sends("UpdateLog") => task.last_sent_id = task.sent_up_to]_vars

\* The place of a change in an UpdateStore: documents inserted, documents
\* updated, deletions, raw changelog entries, Commit.
ChangeRank(change) ==
    CASE change.kind = "InsertMail" -> 1
      [] change.kind = "UpdateMail" -> 2
      [] change.kind = "Delete" -> 3
      [] change.kind = "InsertChange" -> 4
      [] OTHER -> 5

\* The ids prepare_changes has taken from a set of the pending changes are
\* below the ids it has left there.
TakenFirst(before, after) ==
    /\ after \subseteq before
    /\ \A taken \in before \ after : \A left \in after : taken < left

C28_TermNeverDecreases ==
    [][/\ peer'.term >= peer.term
       /\ (task.pc = "await" /\ rpc.response = NoTaskResponse
             /\ rpc'.response.kind \notin {"", "None"})
            => peer'.term = IF rpc.request.term > peer.term
                            THEN rpc.request.term ELSE peer.term]_vars

\* A peer of a greater term has rejected a request of the task and has kept
\* its term.
C28_Witness ==
    /\ rpc.response.kind = "BecomeFollower"
    /\ ~rpc.response.success
    /\ rpc.response.term > rpc.request.term
    /\ peer.term = rpc.response.term

(***************************************************************************)
(* Properties of a Delete.                                                 *)
(***************************************************************************)
\* The number of times a blob key is listed in a blob list.
Listed(keys, blob) == Cardinality({i \in 1 .. Len(keys) : keys[i] = blob})

\* C29: a step of WriteAction::Delete that is written adds the document id to
\* TOMBSTONED_IDS and lowers the counter of each blob key by the number of
\* times the document's blob list holds it; the stored values, the index
\* rows, the tag bits, USED_IDS, FREED_IDS, the blob lists and the blob
\* payloads are as before. A step that fails changes none of these.
C29_DeleteFrame ==
    [][DeleteDocument =>
        /\ values' = values
        /\ indexes' = indexes
        /\ blob_lists' = blob_lists
        /\ blob_store' = blob_store
        /\ \A k \in BitmapKeys \ {BM_TOMBSTONED_IDS} : bitmaps'[k] = bitmaps[k]
        /\ \/ /\ change_log' = change_log
              /\ bitmaps' = bitmaps
              /\ blob_counts' = blob_counts
           \/ \E d \in DocumentIds :
                 LET keys == IF d \in DOMAIN blob_lists THEN blob_lists[d] ELSE <<>>
                 IN /\ bitmaps'[BM_TOMBSTONED_IDS] = bitmaps[BM_TOMBSTONED_IDS] \cup {d}
                    /\ DOMAIN blob_counts' = DOMAIN blob_counts
                    /\ \A blob \in DOMAIN blob_counts :
                          blob_counts'[blob] = blob_counts[blob] - Listed(keys, blob)]_vars

\* A document with a stored value, an index row, a tag bit and a blob has been
\* deleted: it is tombstoned, its rows and its blob list are still there, and
\* the counter of its blob is lowered.
C29_Witness ==
    \E d \in deleted_ids :
        /\ d \in bitmaps[BM_TOMBSTONED_IDS]
        /\ d \in bitmaps[BM_USED_IDS]
        /\ d \in bitmaps[BM_TAG]
        /\ d \in DOMAIN values
        /\ <<values[d], d>> \in indexes
        /\ d \in DOMAIN blob_lists
        /\ blob_lists[d] # <<>>
        /\ blob_counts[blob_lists[d][1]] = 0

(***************************************************************************)
(* Properties of the merge of indexed properties.                          *)
(***************************************************************************)
\* C30: for the object read back from the store and any changes, the
\* operations merge queues for an indexed property are: none when the changes
\* lack the property or carry the current value; otherwise the clear of the
\* current text, when there is one, followed by the set of the new text, or
\* by nothing when the new value is null, the property then being dropped
\* from the object. Once these operations are written the index has no row
\* of the old text and has the row of the new one.
C30_ClearBeforeSet ==
    orm_stored # <<>> =>
        \A changes \in OrmObjects :
            LET cur == get_orm[1]
                r == merge(cur, <<>>, changes)
                rows == OrmWrite([stored |-> orm_stored, index |-> orm_index,
                                  bits |-> orm_bits], r.document, 1)
            IN \A q \in indexed :
                   LET has == q \in DOMAIN cur.properties
                       differs == /\ q \in DOMAIN changes.properties
                                  /\ (has => cur.properties[q] # changes.properties[q])
                       queued == SelectSeq(r.document,
                                     LAMBDA o : o.kind = "text" /\ o.property = q)
                   IN IF ~differs THEN queued = <<>>
                      ELSE LET value == changes.properties[q]
                               is_text == has /\ cur.properties[q].type = "String"
                           IN /\ queued =
                                    (IF is_text
                                     THEN <<TextOp(q, cur.properties[q].text, TRUE)>>
                                     ELSE <<>>)
                                    \o (IF value.type # "Null"
                                        THEN <<TextOp(q, value.text, FALSE)>>
                                        ELSE <<>>)
                              /\ value.type = "Null" => q \notin DOMAIN r.self.properties
                              /\ value.type # "Null" => <<q, value.text>> \in rows.index
                              /\ is_text => <<q, cur.properties[q].text>> \notin rows.index

\* A merge has changed the indexed property from "x" to "y": the clear of
\* "x" was queued before the set of "y", and the index holds the row of "y"
\* and no row of "x".
C30_Witness ==
    /\ orm_result = "merged"
    /\ \E i, j \in 1 .. Len(orm_ops) :
           /\ i < j
           /\ orm_ops[i] = TextOp("name", "x", TRUE)
           /\ orm_ops[j] = TextOp("name", "y", FALSE)
    /\ <<"name", "y">> \in orm_index
    /\ <<"name", "x">> \notin orm_index

(***************************************************************************)
(* Tags of the object and the tag bitmaps (orm.rs 255-285, 171-191).       *)
(***************************************************************************)
\* The (property, tag) pairs of the tag sets of an object.
TagPairs(orm) == {<<q, t>> : q \in DOMAIN orm.tags, t \in Range(OrmTags)} \cap
                 UNION {{<<q, t>> : t \in orm.tags[q]} : q \in DOMAIN orm.tags}

\* C31: after every commit the tag bitmaps hold the document under exactly
\* the tags of the stored snapshot: merge queues a clear for each tag the
\* object had and the new tag sets lack, and a set for each tag they add.
C31_TagsMatchSnapshot ==
    orm_stored # <<>> => orm_bits = TagPairs(get_orm[1])

(***************************************************************************)
(* The bitmap operations of one update_documents call (insert.rs 163-165). *)
(***************************************************************************)
\* The positions of the queued operations on a key and a document id.
OpsOn(key, d) ==
    {i \in 1 .. Len(write_call.ops) :
        write_call.ops[i].key = key /\ write_call.ops[i].document_id = d}

\* The merge operations of the call on a key.
MergesOf(key) ==
    {i \in 1 .. Len(write_call.merges) : write_call.merges[i].key = key}

\* C32: when the call has written, every bitmap key the batches queued an
\* operation on has exactly one merge operation, which lists every document
\* id of those operations once, with the polarity of the last operation queued
\* for it; a key without operations has none.
C32_OneMergePerKey ==
    write_call.pc = "written" =>
        \A key \in BitmapKeys :
            LET docs == {d \in DocIds : OpsOn(key, d) # {}}
            IN IF docs = {} THEN MergesOf(key) = {}
               ELSE /\ Cardinality(MergesOf(key)) = 1
                    /\ \A i \in MergesOf(key) :
                         write_call.merges[i].bits =
                            {<<d, write_call.ops[Max(OpsOn(key, d))].polarity>> : d \in docs}

\* A call has written whose batches set and cleared one document id under one
\* key, the set being the last in one case and the clear in another case of
\* the same call.
C32_Witness ==
    /\ write_call.pc = "written"
    /\ \E d \in DocIds, e \in DocIds :
         /\ d # e
         /\ \E i \in OpsOn(BM_TAG, d) : ~write_call.ops[i].polarity
         /\ write_call.ops[Max(OpsOn(BM_TAG, d))].polarity
         /\ \E i \in OpsOn(BM_TAG, e) : write_call.ops[i].polarity
         /\ ~write_call.ops[Max(OpsOn(BM_TAG, e))].polarity

(***************************************************************************)
(* The blob indexes of a document (insert.rs 523-560).                     *)
(***************************************************************************)
\* The indexes are exactly 0, 1, ..., n-1, each once.
Dense(blob_indexes) ==
    \A k \in 0 .. (Len(blob_indexes) - 1) :
        Cardinality({i \in 1 .. Len(blob_indexes) : blob_indexes[i] = k}) = 1

\* C33: a call of update_documents ends with the error of update_document,
\* before db.write and with no bitmap merge put into the WriteBatch, exactly
\* when the blob fields of one of its batches do not carry the indexes
\* 0, 1, ..., n-1: a call with such a batch is never written.
C33_BlobIndexError ==
    LET bad == \E i \in 1 .. Len(write_call.blob_indexes) :
                   ~Dense(write_call.blob_indexes[i])
    IN /\ bad <=> write_call.pc = "failed"
       /\ write_call.pc = "failed" => write_call.merges = <<>>

\* A call has failed on a batch whose two blob fields carry the same index,
\* after a batch with the indexes 1, 0 was taken.
C33_Witness ==
    /\ write_call.pc = "failed"
    /\ write_call.blob_indexes = <<<<1, 0>>, <<0, 0>>>>

(***************************************************************************)
(* The entries the follower holds back (log.rs 539-551, 659-671).          *)
(***************************************************************************)
\* The buffered entries that a step takes out of pending_entries without
\* persisting them.
Dropped == Range(pending_entries) \ (Range(pending_entries') \cup follower_log')

C35_RemovedOnlyWhenSent ==
    [][(/\ state.name = "PushChanges"
        /\ state'.name = "PushChanges"
        /\ state'.changes # state.changes)
          => request'.kind = "UpdateStore"]_vars

(***************************************************************************)
(* The up-to-date flag of the follower (log.rs 674-715, 367-405).          *)
(***************************************************************************)
\* The id of the last entry of the follower's Raft log, none when it is empty.
LastPersisted == IF follower_log = {} THEN RaftNone ELSE Max(follower_log)

\* C36: whenever the follower is marked up to date, the last entry of its
\* Raft log is the leader's last_log it received last (commit_id).
C36_UpToDateMeansCommitted ==
    up_to_date => LastPersisted = commit_id

(***************************************************************************)
(* Document ids under interleaved assignments (insert.rs 187-199, 43-69).  *)
(***************************************************************************)
\* The ids that are taken: handed out and not given to an insert yet, or
\* inserted and not returned to FREED_IDS by a purge since.
HeldIds == {u.id : u \in uncommitted} \cup (inserted_ids \ purged_ids)

\* C37: assign_document_id hands out an id that is not taken: no id goes to
\* two inserts unless a purge has returned it to FREED_IDS in between,
\* however the assignments, commits, purges and invalidations interleave.
C37_NoIdTwice ==
    [][(AssignNew \/ AssignFreed) =>
          \E aid \in uncommitted' \ uncommitted : aid.id \notin HeldIds]_vars

(***************************************************************************)
(* The handlers of the peer (log.rs 428-484).                              *)
(***************************************************************************)
\* The peer's handler answers the request of the kind that is in flight, or
\* hands it to its follower task, which answers.
Handles(kind) ==
    /\ rpc.request.kind = kind
    /\ rpc.response = NoTaskResponse
    /\ rpc'.response # NoTaskResponse
    /\ rpc'.response.kind # "None"
    /\ ~rpc'.response.success

\* C38: a node handling BecomeFollower{term, last_log} first raises its term
\* to the request's when that is greater; if then its term equals the
\* request's and its log is behind or equal to last_log it follows the sender
\* and hands the request to its follower task (which answers SynchronizeLog);
\* otherwise it answers BecomeFollower{term: own term, success: false}, hands
\* nothing on and follows whom it followed. A node starts to follow on no
\* other request.
C38_FollowsOnlyBehind ==
    /\ [][Handles("BecomeFollower") =>
            LET self_term == IF peer.term < rpc.request.term
                             THEN rpc.request.term ELSE peer.term
            IN /\ peer'.term = self_term
               /\ peer'.last_log = peer.last_log
               /\ IF self_term = rpc.request.term /\ peer.last_log <= rpc.request.last_log
                  THEN /\ peer'.following
                       /\ rpc'.response.kind = "SynchronizeLog"
                  ELSE /\ peer'.following = peer.following
                       /\ rpc'.response =
                              TaskResponse("BecomeFollower", self_term, FALSE, 0)]_vars
    /\ [][~peer.following /\ peer'.following =>
            /\ rpc.request.kind = "BecomeFollower"
            /\ peer.term <= rpc.request.term
            /\ peer.last_log <= rpc.request.last_log]_vars

\* A node of the leader's term has refused BecomeFollower because its log
\* is ahead of the last_log the request carries.
C38_Witness ==
    /\ rpc.request.kind = "BecomeFollower"
    /\ rpc.response = TaskResponse("BecomeFollower", rpc.request.term, FALSE, 0)
    /\ peer.term = rpc.request.term
    /\ peer.last_log > rpc.request.last_log

Damaged(bytes) ==
    \/ bytes \in Prefixes(ItemData) \cup Prefixes(SnapshotData)
    \/ bytes # <<>> /\ bytes[1] \notin {ENTRY, SNAPSHOT}

\* C40: when an entry of an UpdateLog does not deserialize (unknown leading
\* byte or truncated data) or the lookup of the last change id fails, the
\* follower answers Response::None, persists no entry and leaves
\* pending_entries and its up-to-date flag as they were. Data cut short at
\* any length and data with any other leading byte do not deserialize.
C40_UnreadableUpdateLog ==
    /\ [][Rpc("UpdateLog") /\ (Damaged(request'.data) \/ ~request'.lookup_ok) =>
            /\ response'.kind = "None"
            /\ follower_log' = follower_log
            /\ pending_entries' = pending_entries
            /\ up_to_date' = up_to_date
            /\ follower_docs' = follower_docs
            /\ follower_changes' = follower_changes]_vars
    /\ [](\A bytes \in Prefixes(ItemData) \cup Prefixes(SnapshotData)
                       \cup {WithLead(ItemData, b) : b \in 2 .. 3}
                       \cup {WithLead(SnapshotData, b) : b \in 2 .. 3} :
              deserialize_entry(bytes) = <<>>)
    /\ [](deserialize_entry(ItemData) # <<>> /\ deserialize_entry(SnapshotData) # <<>>)

\* A follower that holds pending entries and is not up to date has answered
\* None to an UpdateLog whose data is cut short.
C40_Witness ==
    /\ request.kind = "UpdateLog"
    /\ request.data = SubSeq(ItemData, 1, 1 + AccountIdSize)
    /\ response.kind = "None"
    /\ pending_entries # <<>>
    /\ ~up_to_date
    /\ commit_id = request.last_log
    /\ commit_id > LastPersisted

====
